---- MODULE Spec2Model ----
(***************************************************************************)
(* Blind Surfers: the frame loop of src/blind_surfers/game.py with the     *)
(* player (models.py), the economy, word hunt and achievements             *)
(* (systems.py) and the menu controller (ui.py).                           *)
(*                                                                         *)
(* Numbers are fixed point with one decimal: a time of 0.7 s is 7, a       *)
(* distance of 100.0 is 1000.  `distance -= speed * dt' keeps its form:    *)
(* 10*distance decreases by speed * (10*dt).                               *)
(***************************************************************************)
EXTENDS Integers, Sequences, FiniteSets, TLC

VARIABLES
    running,          \* Game.running
    state,            \* Game.state
    player,           \* Game.player (models.Player)
    score,            \* Game.score
    elapsed,          \* the time the run has been in updates, in tenths of a second
    multiplier,       \* Game.multiplier
    stats,            \* Game.stats
    obstacles,        \* Game.obstacles
    powerups,         \* Game.powerups
    letters,          \* Game.letters
    coins,            \* Game.coins
    obstacle_id,      \* Game.obstacle_id, the number of obstacles spawned so far
    looping_instances, \* SoundManager.looping_instances: tag -> SoundInstance
    channels,         \* the busy channels of pygame.mixer, the longest playing first
    active_powerups,  \* Game.active_powerups, the ledger: kind -> remaining
    economy,          \* Game.economy (systems.Economy)
    collected,        \* Game.word_hunt.collected
    hunt_letters,     \* Game.word_hunt.letters, the target of the word hunt
    tokens,           \* Game.season_hunt.tokens
    unlocked,         \* Game.achievement_system.unlocked, the names unlocked
    menu,             \* Game.menu_controller: active_menu, its index, on_close
    said,             \* what the last handler passed to TTS.say, in order
    hits,             \* one record per obstacle that arrived in the last update
    picks,            \* one record per coin that arrived in the last update
    spelled,          \* one record per letter picked up in the last update
    effects,          \* per kind: duration at the last pickup, RUNNING time since, teardowns since
    shield_broken,    \* a hit consumed the hoverboard and none was granted since
    mixer_call,       \* the last call made to the SoundManager on its own: method, tag, tag live before
    audio_ready,      \* Game.audio_ready: pygame.mixer.init() succeeded
    music,            \* the track pygame.mixer.music plays, "None" when it is stopped
    music_volume,     \* SoundManager.music_volume, in hundredths
    raised            \* an exception has left a handler and with it Game.run

vars == <<running, state, player, score, elapsed, multiplier, stats, obstacles, powerups,
          letters, coins, obstacle_id, looping_instances, channels, active_powerups, economy, collected,
          hunt_letters, tokens, unlocked, menu, said, hits, picks, spelled, effects, shield_broken, mixer_call,
          audio_ready, music, music_volume, raised>>

(***************************************************************************)
(* Configuration (config.py), fixed point where the source has a float.    *)
(***************************************************************************)
max_distance == 1000
base_speed == 25
jump_duration == 7
super_jump_duration == 10
roll_duration == 7
score_rate == 10
mixer_channels == 32
default_sfx_volume == 9
default_music_volume == 80
music_step == 5
continue_hoverboard == 30
default_duration == 100
upgrade_increment == 50
mystery_box_cost == 300
word_hunt_reward == 500
mystery_coins == 500
honk_distance == 200
lanes == {0, 1, 2}

\* GameConfig.lane_pan in ten-thousandths: -0.8, 0.0 and 0.8
lane_pan == [l \in lanes |-> (l - 1) * 8000]
word_hunt_letters == <<"H", "U", "N", "T">>
LedgerKinds == {"jetpack", "super_sneakers", "magnet", "multiplier"}
PowerUpKinds == LedgerKinds \cup {"hoverboard"}

powerup_base_duration ==
    [k \in PowerUpKinds |-> IF k = "hoverboard" THEN 300 ELSE 100]

upgrade_costs ==
    [k \in PowerUpKinds |->
        CASE k = "jetpack" -> 500
          [] k = "super_sneakers" -> 400
          [] k = "magnet" -> 450
          [] k = "multiplier" -> 600
          [] k = "hoverboard" -> 700]

MENU == "menu"
RUNNING == "running"
GAME_OVER == "game_over"

(***************************************************************************)
(* models.Player                                                           *)
(***************************************************************************)
NewPlayer ==
    [lane |-> 1, jumping |-> FALSE, rolling |-> FALSE, jump_timer |-> 0,
     roll_timer |-> 0, super_sneakers |-> FALSE, jetpack |-> FALSE,
     hoverboard_active |-> FALSE, hoverboard_timer |-> 0]

\* move_left without the test of the lane
MoveLeftUnclamped(p) == [p EXCEPT !.lane = @ - 1]

move_left(p) == IF p.lane > 0 THEN [p EXCEPT !.lane = @ - 1] ELSE p

move_right(p) == IF p.lane < 2 THEN [p EXCEPT !.lane = @ + 1] ELSE p

jump(p, duration) == [p EXCEPT !.jumping = TRUE, !.jump_timer = duration]

roll(p, duration) == [p EXCEPT !.rolling = TRUE, !.roll_timer = duration]

PlayerUpdate(p, dt) ==
    LET p1 == IF p.jumping
              THEN [p EXCEPT !.jump_timer = @ - dt,
                             !.jumping = ~(p.jump_timer - dt <= 0)]
              ELSE p
        p2 == IF p1.rolling
              THEN [p1 EXCEPT !.roll_timer = @ - dt,
                              !.rolling = ~(p1.roll_timer - dt <= 0)]
              ELSE p1
    IN  IF p2.hoverboard_active
        THEN [p2 EXCEPT !.hoverboard_timer = @ - dt,
                        !.hoverboard_active = ~(p2.hoverboard_timer - dt <= 0)]
        ELSE p2

(***************************************************************************)
(* systems.py: Economy, WordHunt, SeasonHunt, AchievementSystem            *)
(***************************************************************************)
NewEconomy ==
    [coins |-> 0, keys |-> 0, mystery_boxes |-> 0,
     powerup_durations |-> powerup_base_duration]

\* dict.get(kind, default) on the duration table
DurationOf(e, kind) ==
    IF kind \in DOMAIN e.powerup_durations
    THEN e.powerup_durations[kind] ELSE default_duration

CostOf(kind) == IF kind \in DOMAIN upgrade_costs THEN upgrade_costs[kind] ELSE 0

\* buy_upgrade without the test of the balance
UpgradeOnCredit(e, kind) ==
    IF CostOf(kind) > 0
    THEN [e |-> [e EXCEPT !.coins = @ - CostOf(kind),
                          !.powerup_durations =
                              (kind :> (DurationOf(e, kind) + upgrade_increment)) @@ @],
          ok |-> TRUE]
    ELSE [e |-> e, ok |-> FALSE]

buy_upgrade(e, kind) ==
    IF e.coins >= CostOf(kind) /\ CostOf(kind) > 0
    THEN [e |-> [e EXCEPT !.coins = @ - CostOf(kind),
                          !.powerup_durations =
                              (kind :> (DurationOf(e, kind) + upgrade_increment)) @@ @],
          ok |-> TRUE]
    ELSE [e |-> e, ok |-> FALSE]

\* buy_mystery_box without the test of the balance
BoxOnCredit(e) ==
    [e |-> [e EXCEPT !.coins = @ - mystery_box_cost, !.mystery_boxes = @ + 1],
     ok |-> TRUE]

buy_mystery_box(e) ==
    IF e.coins >= mystery_box_cost
    THEN [e |-> [e EXCEPT !.coins = @ - mystery_box_cost, !.mystery_boxes = @ + 1],
          ok |-> TRUE]
    ELSE [e |-> e, ok |-> FALSE]

\* open_mystery_box that leaves the box in the inventory
OpenKeepingBox(e, reward) ==
    IF e.mystery_boxes <= 0
    THEN [e |-> e, reward |-> "None"]
    ELSE [e |-> [e EXCEPT !.coins = IF reward = "Coins" THEN @ + mystery_coins ELSE @,
                          !.keys = IF reward = "Keys" THEN @ + 1 ELSE @],
          reward |-> reward]

\* reward is the outcome of random.choice(["Coins", "Keys", "Trophies"])
open_mystery_box(e, reward) ==
    IF e.mystery_boxes <= 0
    THEN [e |-> e, reward |-> "None"]
    ELSE [e |-> [e EXCEPT !.mystery_boxes = @ - 1,
                          !.coins = IF reward = "Coins" THEN @ + mystery_coins ELSE @,
                          !.keys = IF reward = "Keys" THEN @ + 1 ELSE @],
          reward |-> reward]

\* the WordHunt of the game: its letters and what is collected of them
word_hunt(c) == [letters |-> c.hunt_letters, collected |-> c.collected]

next_letter(w) ==
    IF Len(w.letters) = 0 THEN ""
    ELSE w.letters[(Len(w.collected) % Len(w.letters)) + 1]

\* collect completing one letter late
CollectKeeping(w, letter) ==
    IF Len(Append(w.collected, letter)) = Len(w.letters) + 1
    THEN [collected |-> <<>>, completed |-> TRUE]
    ELSE [collected |-> Append(w.collected, letter), completed |-> FALSE]

collect(w, letter) ==
    IF Len(Append(w.collected, letter)) = Len(w.letters)
    THEN [collected |-> <<>>, completed |-> TRUE]
    ELSE [collected |-> Append(w.collected, letter), completed |-> FALSE]

jumps_threshold == 100
coins_threshold == 5000
score_threshold == 100000

\* check with the coin total tested before the jumps
CheckCoinsFirst(unl, st) ==
    IF "Gold Digger" \notin unl /\ st.total_coins >= coins_threshold THEN "Gold Digger"
    ELSE IF "High Jumper" \notin unl /\ st.jumps >= jumps_threshold THEN "High Jumper"
    ELSE IF "Marathon" \notin unl /\ st.score >= score_threshold THEN "Marathon"
    ELSE ""

\* check that forgets that High Jumper is unlocked
CheckAgain(unl, st) ==
    IF st.jumps >= jumps_threshold THEN "High Jumper"
    ELSE IF "Gold Digger" \notin unl /\ st.total_coins >= coins_threshold THEN "Gold Digger"
    ELSE IF "Marathon" \notin unl /\ st.score >= score_threshold THEN "Marathon"
    ELSE ""

\* AchievementSystem.check: the name unlocked by this call, or "" for None
check(unl, st) ==
    IF "High Jumper" \notin unl /\ st.jumps >= jumps_threshold THEN "High Jumper"
    ELSE IF "Gold Digger" \notin unl /\ st.total_coins >= coins_threshold THEN "Gold Digger"
    ELSE IF "Marathon" \notin unl /\ st.score >= score_threshold THEN "Marathon"
    ELSE ""

(***************************************************************************)
(* game.py.  A context c is a record of the fields of Game (one per        *)
(* variable, under the variable's name) plus cues, the play_sound calls of *)
(* the collision being resolved, and lapsed, the kinds the ledger sweep of  *)
(* the running update removed; each method maps a context to a context.    *)
(***************************************************************************)
\* the sounds that load_sound finds in the sound directory
Assets ==
    {"barrier_low", "barrier_high", "train_rumble", "jetpack_loop", "magnet_loop",
     "crash", "hoverboard_break", "hoverboard_on", "coin_collect", "train_honk"}

\* F applied to the value of e, which is computed once
Pipe(e, F(_)) == CHOOSE r \in {F(x) : x \in {e}} : TRUE

Max(a, b) == IF a >= b THEN a ELSE b

Least(a, b) == IF a <= b THEN a ELSE b

\* config.game.lane_pan.get(lane, 0.0)
PanOf(lane) == IF lane \in DOMAIN lane_pan THEN lane_pan[lane] ELSE 0

\* SoundManager._pan_to_stereo: pan and the two gains in ten-thousandths
pan_to_stereo(pan) ==
    LET p == Max(-10000, Least(10000, pan))
    IN  [left |-> Max(0, Least(10000, 10000 - Max(0, p))),
         right |-> Max(0, Least(10000, 10000 + Least(0, p)))]

\* _distance_to_volume with no clamp of the distance
DistanceUnclamped(distance) ==
    Max(0, 1000 - (1000 * distance) \div max_distance)

\* SoundManager._distance_to_volume, in thousandths
distance_to_volume(distance) ==
    LET d == Max(0, Least(max_distance, distance))
    IN  Max(0, 1000 - (1000 * d) \div max_distance)

\* the two arguments of Channel.set_volume, in units of 10^-8: each stereo
\* gain times the distance volume times sfx_volume
Volume(pan, distance) ==
    [left |-> pan_to_stereo(pan).left * distance_to_volume(distance) * default_sfx_volume,
     right |-> pan_to_stereo(pan).right * distance_to_volume(distance) * default_sfx_volume]

\* load_sound finds the file and pygame.mixer.Sound loads it: without a mixer
\* it raises pygame.error, which load_sound catches
Loaded(c, name) == c.audio_ready /\ name \in Assets

\* the music files of the sound directory
MusicAssets == {"theme.ogg", "achmusic.ogg"}

\* an exception leaves the method and every caller up to Game.run, where
\* nothing catches it
Raise(c) == [c EXCEPT !.raised = TRUE]

\* SoundManager.play_music: a missing file is skipped and the pygame.error of
\* a mixer that is not initialised is caught
play_music(c, name) ==
    IF name \notin MusicAssets \/ ~c.audio_ready THEN c
    ELSE [c EXCEPT !.music = name]

\* SoundManager.stop_music: pygame.mixer.music.stop() raises pygame.error when
\* the mixer is not initialised
stop_music(c) ==
    IF c.audio_ready THEN [c EXCEPT !.music = "None"] ELSE Raise(c)

\* adjust_music_volume with no clamp
AdjustUnclamped(c, delta) ==
    LET c1 == [c EXCEPT !.music_volume = @ + delta]
    IN  IF c.audio_ready THEN [c1 EXCEPT !.said = Append(@, "Music volume")]
        ELSE Raise(c1)

\* SoundManager.adjust_music_volume, delta in hundredths: the field is set,
\* then pygame.mixer.music.set_volume raises pygame.error when the mixer is
\* not initialised, then the percentage is spoken (the number is left out)
adjust_music_volume(c, delta) ==
    LET c1 == [c EXCEPT !.music_volume = Max(0, Least(100, @ + delta))]
    IN  IF c.audio_ready THEN [c1 EXCEPT !.said = Append(@, "Music volume")]
        ELSE Raise(c1)

Busy(chs) == {chs[i].channel : i \in DOMAIN chs}

\* pygame.mixer.find_channel(True): the first idle channel, and with none
\* idle the channel that has been playing longest
find_channel(chs) ==
    LET idle == (0 .. mixer_channels - 1) \ Busy(chs)
    IN  IF idle # {} THEN CHOOSE n \in idle : \A k \in idle : n <= k
        ELSE chs[1].channel

\* Channel.stop, and the end of what a channel was playing
Stopped(chs, n) == SelectSeq(chs, LAMBDA e : e.channel # n)

\* Channel.set_volume(left, right) followed by Channel.play(sound, loops):
\* whatever the channel was playing is cut off
Playing(chs, n, name, loops, vol) ==
    Append(Stopped(chs, n), [channel |-> n, sound |-> name, loops |-> loops,
                             left |-> vol.left, right |-> vol.right])

\* Channel.set_volume(left, right) on a channel, idle or not
SetVolume(chs, n, vol) ==
    [i \in DOMAIN chs |->
        IF chs[i].channel = n
        THEN [chs[i] EXCEPT !.left = vol.left, !.right = vol.right]
        ELSE chs[i]]

\* SoundManager.play_sound.  The game's own one-shot cues are collected in
\* cues and hits instead: they are short, and over before the next sound starts
play_sound(c, name, lane, distance, loops) ==
    IF ~Loaded(c, name) THEN c
    ELSE [c EXCEPT !.channels = Playing(@, find_channel(c.channels), name, loops,
                                        Volume(PanOf(lane), distance))]

\* start_loop without the test for a live tag
StartLoopAgain(c, tag, name, lane, distance) ==
    IF ~Loaded(c, name) THEN c
    ELSE LET n == find_channel(c.channels)
         IN  [c EXCEPT !.channels = Playing(@, n, name, -1, Volume(PanOf(lane), distance)),
                       !.looping_instances =
                           (tag :> [name |-> name, channel |-> n, lane |-> lane,
                                    distance |-> distance]) @@ @]

\* SoundManager.start_loop
start_loop(c, tag, name, lane, distance) ==
    IF tag \in DOMAIN c.looping_instances \/ ~Loaded(c, name) THEN c
    ELSE LET n == find_channel(c.channels)
         IN  [c EXCEPT !.channels = Playing(@, n, name, -1, Volume(PanOf(lane), distance)),
                       !.looping_instances =
                           (tag :> [name |-> name, channel |-> n, lane |-> lane,
                                    distance |-> distance]) @@ @]

\* SoundManager.stop_loop
stop_loop(c, tag) ==
    IF tag \notin DOMAIN c.looping_instances THEN c
    ELSE [c EXCEPT !.channels = Stopped(@, c.looping_instances[tag].channel),
                   !.looping_instances = [t \in DOMAIN @ \ {tag} |-> @[t]]]

\* SoundManager.update_loop
update_loop(c, tag, lane, distance) ==
    IF tag \notin DOMAIN c.looping_instances THEN c
    ELSE Pipe(Volume(PanOf(lane), distance), LAMBDA vol :
            [c EXCEPT !.channels = SetVolume(@, c.looping_instances[tag].channel, vol),
                      !.looping_instances[tag].lane = lane,
                      !.looping_instances[tag].distance = distance])

\* SoundManager.update_loop_with_pan
update_loop_with_pan(c, tag, pan, distance) ==
    IF tag \notin DOMAIN c.looping_instances THEN c
    ELSE Pipe(Volume(pan, distance), LAMBDA vol :
            [c EXCEPT !.channels = SetVolume(@, c.looping_instances[tag].channel, vol),
                      !.looping_instances[tag].distance = distance])

Cue(name, lane, distance) == [name |-> name, lane |-> lane, distance |-> distance]

\* handle_collision without its jetpack test
CollisionIgnoringJetpack(c, o) ==
    IF c.player.hoverboard_active
    THEN [c EXCEPT !.player.hoverboard_active = FALSE,
                   !.shield_broken = TRUE,
                   !.cues = Append(@, Cue("hoverboard_break", o.lane, 0))]
    ELSE LET c1 == stop_music([c EXCEPT !.state = GAME_OVER,
                                      !.cues = Append(@, Cue("crash", o.lane, 0))])
         IN  IF c1.raised THEN c1
             ELSE [c1 EXCEPT !.said = @ \o <<"Game Over">>]

\* handle_collision with a hoverboard that survives the hit
CollisionKeepingHoverboard(c, o) ==
    IF c.player.jetpack THEN c
    ELSE IF c.player.hoverboard_active
    THEN [c EXCEPT !.shield_broken = TRUE,
                   !.cues = Append(@, Cue("hoverboard_break", o.lane, 0))]
    ELSE LET c1 == stop_music([c EXCEPT !.state = GAME_OVER,
                                      !.cues = Append(@, Cue("crash", o.lane, 0))])
         IN  IF c1.raised THEN c1
             ELSE [c1 EXCEPT !.said = @ \o <<"Game Over">>]

\* handle_collision that ends the run without the crash cue
CollisionWithoutCue(c, o) ==
    IF c.player.jetpack THEN c
    ELSE IF c.player.hoverboard_active
    THEN [c EXCEPT !.player.hoverboard_active = FALSE,
                   !.shield_broken = TRUE,
                   !.cues = Append(@, Cue("hoverboard_break", o.lane, 0))]
    ELSE LET c1 == stop_music([c EXCEPT !.state = GAME_OVER])
         IN  IF c1.raised THEN c1
             ELSE [c1 EXCEPT !.said = @ \o <<"Game Over">>]

\* Game.handle_collision; c.cues collects its play_sound calls.  An exception
\* of stop_music leaves the method before it speaks
handle_collision(c, o) ==
    IF c.player.jetpack THEN c
    ELSE IF c.player.hoverboard_active
    THEN [c EXCEPT !.player.hoverboard_active = FALSE,
                   !.shield_broken = TRUE,
                   !.cues = Append(@, Cue("hoverboard_break", o.lane, 0))]
    ELSE LET c1 == stop_music([c EXCEPT !.state = GAME_OVER,
                                      !.cues = Append(@, Cue("crash", o.lane, 0))])
         IN  IF c1.raised THEN c1
             ELSE [c1 EXCEPT !.said = @ \o <<"Game Over">>
                                     \o (IF c.economy.keys > 0
                                         THEN <<"Press K to use a key and continue">>
                                         ELSE <<>>)]

\* the pass-through tests with the roll under a high obstacle left out
AvoidedByJumpOnly(p, o) ==
    o.height = "low" /\ p.jumping

\* the pass-through tests of update_obstacles, for an obstacle in the player's lane
Avoided(p, o) ==
    \/ o.height = "low" /\ p.jumping
    \/ o.height = "high" /\ p.rolling

\* one pass of the loop body of update_obstacles, the obstacle already moved
ObstacleArrival(c, o) ==
    LET c0 == [stop_loop(c, o.sound_tag) EXCEPT !.cues = <<>>]
        c1 == IF o.lane = c.player.lane /\ ~Avoided(c.player, o)
              THEN handle_collision(c0, o) ELSE c0
        hit == [lane |-> o.lane, height |-> o.height, distance |-> o.distance,
                plane |-> c.player.lane,
                jumping |-> c.player.jumping, rolling |-> c.player.rolling,
                jetpack |-> c.player.jetpack,
                hover0 |-> c.player.hoverboard_active,
                hover1 |-> c1.player.hoverboard_active,
                broken0 |-> c.shield_broken,
                state0 |-> c.state, state1 |-> c1.state,
                cues |-> c1.cues, nsaid |-> Len(c1.said) - Len(c.said)]
    IN  [c1 EXCEPT !.hits = Append(@, hit)]

\* MoveObstacle with an obstacle that stops just short of the player
MoveStalling(o, dt) ==
    LET d == Max(o.distance - base_speed * dt, 1)
    IN  [o EXCEPT !.distance = d,
                  !.honk_played = @ \/ (o.kind = "train" /\ d <= honk_distance),
                  !.active = ~(d <= 0)]

MoveObstacle(o, dt) ==
    LET d == o.distance - base_speed * dt
    IN  [o EXCEPT !.distance = d,
                  !.honk_played = @ \/ (o.kind = "train" /\ d <= honk_distance),
                  !.active = ~(d <= 0)]

RECURSIVE ObstacleLoop(_, _, _, _)
ObstacleLoop(c, obs, i, dt) ==
    IF i > Len(obs) THEN c
    ELSE IF ~obs[i].active \/ c.raised
    THEN Pipe([c EXCEPT !.obstacles = Append(@, obs[i])],
              LAMBDA cn : ObstacleLoop(cn, obs, i + 1, dt))
    ELSE Pipe(MoveObstacle(obs[i], dt), LAMBDA o :
         LET \* pan * progress, progress being 1 - distance / max_distance
             pan == (PanOf(o.lane) * (1000 - (1000 * o.distance) \div max_distance))
                        \div 1000
             c0 == IF o.kind = "train"
                   THEN update_loop_with_pan(c, o.sound_tag, pan, o.distance)
                   ELSE update_loop(c, o.sound_tag, o.lane, o.distance)
         IN  Pipe(c0, LAMBDA cl :
             Pipe(IF o.distance <= 0 THEN ObstacleArrival(cl, o) ELSE cl, LAMBDA c1 :
             Pipe([c1 EXCEPT !.obstacles = Append(@, o)],
                  LAMBDA cn : ObstacleLoop(cn, obs, i + 1, dt)))))

Active(seq) == SelectSeq(seq, LAMBDA e : e.active)

\* Game.update_obstacles on context c.  An exception of handle_collision ends
\* the loop: the obstacles behind the one that collided are not moved and the
\* obstacle that arrived stays in the list
update_obstacles(c, dt) ==
    LET c1 == ObstacleLoop([c EXCEPT !.obstacles = <<>>, !.hits = <<>>],
                           c.obstacles, 1, dt)
    IN  IF c1.raised THEN c1 ELSE [c1 EXCEPT !.obstacles = Active(@)]

(***************************************************************************)
(* The ledger                                                              *)
(***************************************************************************)
Put(f, k, v) == (k :> v) @@ f

Without(f, ks) == [k \in DOMAIN f \ ks |-> f[k]]

NoEffect == [picked |-> FALSE, d |-> 0, age |-> 0, downs |-> 0]

Min(a, b) == Least(a, b)

\* activate_powerup that adds the duration to what is left of an active kind
ActivateAdding(c, pu) ==
    LET duration == DurationOf(c.economy, pu.kind)
        fresh == [picked |-> TRUE, d |-> duration, age |-> 0, downs |-> 0]
        left == IF pu.kind \in DOMAIN c.active_powerups
                THEN c.active_powerups[pu.kind] ELSE 0
    IN  CASE pu.kind = "jetpack" ->
                [start_loop(c, "jetpack", "jetpack_loop", 1, 0) EXCEPT
                          !.player.jetpack = TRUE,
                          !.active_powerups = Put(@, "jetpack", left + duration),
                          !.effects["jetpack"] = fresh]
          [] pu.kind = "super_sneakers" ->
                [c EXCEPT !.player.super_sneakers = TRUE,
                          !.active_powerups = Put(@, "super_sneakers", left + duration),
                          !.effects["super_sneakers"] = fresh]
          [] pu.kind = "magnet" ->
                [start_loop(c, "magnet", "magnet_loop", 1, 0) EXCEPT
                          !.active_powerups = Put(@, "magnet", left + duration),
                          !.effects["magnet"] = fresh]
          [] pu.kind = "multiplier" ->
                [c EXCEPT !.multiplier = 2,
                          !.active_powerups = Put(@, "multiplier", left + duration),
                          !.effects["multiplier"] = fresh]
          [] pu.kind = "hoverboard" ->
                [c EXCEPT !.player.hoverboard_active = TRUE,
                          !.player.hoverboard_timer = duration,
                          !.shield_broken = FALSE]
          [] pu.kind = "season_token" ->
                [c EXCEPT !.tokens = @ + 1,
                          !.said = Append(@, "Season token collected")]
          [] OTHER -> c

\* Game.activate_powerup
activate_powerup(c, pu) ==
    LET duration == DurationOf(c.economy, pu.kind)
        fresh == [picked |-> TRUE, d |-> duration, age |-> 0, downs |-> 0]
    IN  CASE pu.kind = "jetpack" ->
                [start_loop(c, "jetpack", "jetpack_loop", 1, 0) EXCEPT
                          !.player.jetpack = TRUE,
                          !.active_powerups = Put(@, "jetpack", duration),
                          !.effects["jetpack"] = fresh]
          [] pu.kind = "super_sneakers" ->
                [c EXCEPT !.player.super_sneakers = TRUE,
                          !.active_powerups = Put(@, "super_sneakers", duration),
                          !.effects["super_sneakers"] = fresh]
          [] pu.kind = "magnet" ->
                [start_loop(c, "magnet", "magnet_loop", 1, 0) EXCEPT
                          !.active_powerups = Put(@, "magnet", duration),
                          !.effects["magnet"] = fresh]
          [] pu.kind = "multiplier" ->
                [c EXCEPT !.multiplier = 2,
                          !.active_powerups = Put(@, "multiplier", duration),
                          !.effects["multiplier"] = fresh]
          [] pu.kind = "hoverboard" ->
                [c EXCEPT !.player.hoverboard_active = TRUE,
                          !.player.hoverboard_timer = duration,
                          !.shield_broken = FALSE]
          [] pu.kind = "season_token" ->
                [c EXCEPT !.tokens = @ + 1,
                          !.said = Append(@, "Season token collected")]
          [] OTHER -> c

\* the teardown with the multiplier left at 2
TeardownKeepingMultiplier(c, kind) ==
    LET c1 == [c EXCEPT !.active_powerups = Without(@, {kind}),
                        !.effects[kind].downs = @ + 1]
    IN  CASE kind = "jetpack" -> [stop_loop(c1, "jetpack") EXCEPT !.player.jetpack = FALSE]
          [] kind = "magnet" -> stop_loop(c1, "magnet")
          [] kind = "super_sneakers" -> [c1 EXCEPT !.player.super_sneakers = FALSE]
          [] OTHER -> c1

\* the teardown of one expired kind in update_powerups
Teardown(c, kind) ==
    LET c1 == [c EXCEPT !.active_powerups = Without(@, {kind}),
                        !.effects[kind].downs = @ + 1]
    IN  CASE kind = "jetpack" -> [stop_loop(c1, "jetpack") EXCEPT !.player.jetpack = FALSE]
          [] kind = "magnet" -> stop_loop(c1, "magnet")
          [] kind = "super_sneakers" -> [c1 EXCEPT !.player.super_sneakers = FALSE]
          [] kind = "multiplier" -> [c1 EXCEPT !.multiplier = 1]
          [] OTHER -> c1

RECURSIVE TeardownAll(_, _)
TeardownAll(c, kinds) ==
    IF kinds = {} THEN c
    ELSE LET k == CHOOSE x \in kinds : TRUE
         IN  TeardownAll(Teardown(c, k), kinds \ {k})

\* Game.update_powerups: the expiry sweep
update_powerups(c, dt) ==
    LET swept == [k \in DOMAIN c.active_powerups |-> c.active_powerups[k] - dt]
        expired == {k \in DOMAIN swept : swept[k] <= 0}
        aged == [k \in LedgerKinds |->
                    IF c.effects[k].picked
                    THEN [c.effects[k] EXCEPT !.age = Min(@ + dt, c.effects[k].d)]
                    ELSE c.effects[k]]
    IN  TeardownAll([c EXCEPT !.active_powerups = swept, !.effects = aged,
                              !.lapsed = expired], expired)

(***************************************************************************)
(* Power-ups, letters and coins on their way to the player                 *)
(***************************************************************************)
\* Move with the distance growing
MoveAway(e, dt) ==
    [e EXCEPT !.distance = @ + base_speed * dt,
              !.active = ~(e.distance + base_speed * dt <= 0)]

\* the advance of update_powerup_objects, update_letters and update_coins
Move(e, dt) ==
    [e EXCEPT !.distance = @ - base_speed * dt,
              !.active = ~(e.distance - base_speed * dt <= 0)]

RECURSIVE PowerupLoop(_, _, _, _)
PowerupLoop(c, pus, i, dt) ==
    IF i > Len(pus) THEN c
    ELSE IF ~pus[i].active
    THEN Pipe([c EXCEPT !.powerups = Append(@, pus[i])], LAMBDA cn : PowerupLoop(cn, pus, i + 1, dt))
    ELSE LET pu == Move(pus[i], dt)
             c1 == IF pu.distance <= 0 /\ pu.lane = c.player.lane
                   THEN activate_powerup(c, pu) ELSE c
         IN  Pipe([c1 EXCEPT !.powerups = Append(@, pu)], LAMBDA cn : PowerupLoop(cn, pus, i + 1, dt))

\* Game.update_powerup_objects
update_powerup_objects(c, dt) ==
    LET c1 == PowerupLoop([c EXCEPT !.powerups = <<>>], c.powerups, 1, dt)
    IN  [c1 EXCEPT !.powerups = Active(@)]

\* the pickup of one letter in update_letters
LetterPickup(c, l) ==
    LET r == collect(word_hunt(c), l.letter)
        pickup == [before |-> c.collected, letter |-> l.letter,
                   after |-> r.collected, completed |-> r.completed,
                   coins0 |-> c.economy.coins,
                   coins1 |-> IF r.completed THEN c.economy.coins + word_hunt_reward
                              ELSE c.economy.coins]
    IN  [c EXCEPT !.collected = r.collected,
                  !.spelled = Append(@, pickup),
                  !.said = @ \o <<"You collected a letter">>
                           \o (IF r.completed THEN <<"Word hunt complete">> ELSE <<>>),
                  !.economy.coins = IF r.completed THEN @ + word_hunt_reward ELSE @]

RECURSIVE LetterLoop(_, _, _, _)
LetterLoop(c, ls, i, dt) ==
    IF i > Len(ls) THEN c
    ELSE IF ~ls[i].active
    THEN Pipe([c EXCEPT !.letters = Append(@, ls[i])], LAMBDA cn : LetterLoop(cn, ls, i + 1, dt))
    ELSE LET l == Move(ls[i], dt)
             c1 == IF l.distance <= 0 /\ l.lane = c.player.lane
                   THEN LetterPickup(c, l) ELSE c
         IN  Pipe([c1 EXCEPT !.letters = Append(@, l)], LAMBDA cn : LetterLoop(cn, ls, i + 1, dt))

\* Game.update_letters
update_letters(c, dt) ==
    LET c1 == LetterLoop([c EXCEPT !.letters = <<>>, !.spelled = <<>>], c.letters, 1, dt)
    IN  [c1 EXCEPT !.letters = Active(@)]

\* Game.collect_coin
collect_coin(c, lane) ==
    [c EXCEPT !.economy.coins = @ + 1, !.stats.total_coins = @ + 1]

\* an arrival test of update_coins that passes in every lane
CollectsAnyLane(c, coin) == TRUE

\* the arrival test of update_coins
Collects(c, coin) ==
    coin.lane = c.player.lane \/ "magnet" \in DOMAIN c.active_powerups

CoinArrival(c, coin) ==
    LET c1 == IF Collects(c, coin) THEN collect_coin(c, coin.lane) ELSE c
        pick == [lane |-> coin.lane, plane |-> c.player.lane,
                 magnet |-> "magnet" \in DOMAIN c.active_powerups,
                 lapsed |-> c.lapsed,
                 coins0 |-> c.economy.coins, coins1 |-> c1.economy.coins,
                 total0 |-> c.stats.total_coins, total1 |-> c1.stats.total_coins]
    IN  [c1 EXCEPT !.picks = Append(@, pick)]

RECURSIVE CoinLoop(_, _, _, _)
CoinLoop(c, cs, i, dt) ==
    IF i > Len(cs) THEN c
    ELSE IF ~cs[i].active
    THEN Pipe([c EXCEPT !.coins = Append(@, cs[i])], LAMBDA cn : CoinLoop(cn, cs, i + 1, dt))
    ELSE LET coin == Move(cs[i], dt)
             c1 == IF coin.distance <= 0 THEN CoinArrival(c, coin) ELSE c
         IN  Pipe([c1 EXCEPT !.coins = Append(@, coin)], LAMBDA cn : CoinLoop(cn, cs, i + 1, dt))

\* Game.update_coins
update_coins(c, dt) ==
    LET c1 == CoinLoop([c EXCEPT !.coins = <<>>, !.picks = <<>>], c.coins, 1, dt)
    IN  [c1 EXCEPT !.coins = Active(@)]

\* Game.update_score: int(score_rate * multiplier * delta_seconds * 60)
update_score(c, dt) ==
    LET s == c.score + (score_rate * c.multiplier * dt * 60) \div 10
    IN  [c EXCEPT !.score = s, !.stats.score = s]

(***************************************************************************)
(* Spawning.  The random draws of a frame are its spawn plan sp: for each  *)
(* entity type a sequence holding the draw of the one entity spawned, or   *)
(* nothing when the Bernoulli trial of update fails.                       *)
(***************************************************************************)
\* Game.spawn_obstacle
spawn_obstacle(c, draw) ==
    LET tag == "obstacle_" \o ToString(c.obstacle_id + 1)
        started ==
            IF draw.kind = "barrier"
            THEN start_loop(c, tag, IF draw.height = "low" THEN "barrier_low"
                                    ELSE "barrier_high", draw.lane, max_distance)
            ELSE start_loop(c, tag, "train_rumble", 1, max_distance)
    IN  [started EXCEPT
              !.obstacle_id = @ + 1,
              !.obstacles =
        Append(@, [lane |-> draw.lane, distance |-> max_distance, kind |-> draw.kind,
                   height |-> draw.height, active |-> TRUE,
                   sound_tag |-> tag, honk_played |-> FALSE])]

\* Game.spawn_powerup, and Game.spawn_season_token with kind "season_token"
spawn_powerup(c, draw) ==
    [c EXCEPT !.powerups =
        Append(@, [lane |-> draw.lane, distance |-> max_distance, kind |-> draw.kind,
                   active |-> TRUE])]

\* Game.spawn_letter
spawn_letter(c, draw) ==
    IF next_letter(word_hunt(c)) = "" THEN c
    ELSE [c EXCEPT !.letters =
            Append(@, [lane |-> draw.lane, distance |-> max_distance,
                       letter |-> next_letter(word_hunt(c)), active |-> TRUE])]

\* Game.spawn_coin
spawn_coin(c, draw) ==
    [c EXCEPT !.coins =
        Append(@, [lane |-> draw.lane, distance |-> max_distance, active |-> TRUE])]

\* the five trials at the end of Game.update
Spawns(c, sp) ==
    LET c1 == IF sp.obstacle # <<>> THEN spawn_obstacle(c, sp.obstacle[1]) ELSE c
        c2 == IF sp.powerup # <<>> THEN spawn_powerup(c1, sp.powerup[1]) ELSE c1
        c3 == IF sp.letter # <<>> THEN spawn_letter(c2, sp.letter[1]) ELSE c2
        c4 == IF sp.season # <<>>
              THEN spawn_powerup(c3, [lane |-> sp.season[1].lane, kind |-> "season_token"])
              ELSE c3
    IN  IF sp.coin # <<>> THEN spawn_coin(c4, sp.coin[1]) ELSE c4

\* AchievementSystem.check and unlock as called at the end of Game.update
Achievements(c) ==
    IF check(c.unlocked, c.stats) = "" THEN c
    ELSE [c EXCEPT !.unlocked = @ \cup {check(c.unlocked, c.stats)},
                   !.said = Append(@, "Achievement unlocked: "
                                       \o check(c.unlocked, c.stats))]

\* update with the coins advanced before the ledger sweep
UpdateCoinsFirst(c, dt, sp) ==
    IF c.state # RUNNING THEN c
    ELSE LET c1 == [c EXCEPT !.player = PlayerUpdate(@, dt), !.elapsed = @ + dt]
             c2 == update_coins(c1, dt)
             c3 == update_powerups(c2, dt)
             c4 == update_obstacles(c3, dt)
             c5 == update_powerup_objects(c4, dt)
             c6 == update_letters(c5, dt)
             c7 == update_score(c6, dt)
         IN  IF c4.raised THEN c4 ELSE Achievements(Spawns(c7, sp))

\* update with the obstacles resolved before the player's timers and the
\* ledger sweep
UpdateObstaclesFirst(c, dt, sp) ==
    IF c.state # RUNNING THEN c
    ELSE LET c1 == update_obstacles([c EXCEPT !.elapsed = @ + dt], dt)
             c2 == [c1 EXCEPT !.player = PlayerUpdate(@, dt)]
             c3 == update_powerups(c2, dt)
             c4 == update_powerup_objects(c3, dt)
             c5 == update_letters(c4, dt)
             c6 == update_coins(c5, dt)
             c7 == update_score(c6, dt)
         IN  IF c1.raised THEN c1 ELSE Achievements(Spawns(c7, sp))

\* Game.update
update(c, dt, sp) ==
    IF c.state # RUNNING THEN c
    ELSE Pipe([c EXCEPT !.player = PlayerUpdate(@, dt), !.elapsed = @ + dt], LAMBDA c1 :
         Pipe(update_powerups(c1, dt), LAMBDA c2 :
         Pipe(update_obstacles(c2, dt), LAMBDA c3 :
            IF c3.raised THEN c3
            ELSE Pipe(update_powerup_objects(c3, dt), LAMBDA c4 :
                 Pipe(update_letters(c4, dt), LAMBDA c5 :
                 Pipe(update_coins(c5, dt), LAMBDA c6 :
                 Pipe(update_score(c6, dt), LAMBDA c7 :
                 Pipe(Spawns(c7, sp), LAMBDA c8 : Achievements(c8)))))))))

(***************************************************************************)
(* Runs and menus                                                          *)
(***************************************************************************)
EmptyLedger == [k \in {} |-> 0]

\* reset_run that leaves the ledger as the last run left it
ResetKeepingLedger(c) ==
    [c EXCEPT !.player = NewPlayer, !.score = 0, !.multiplier = 1, !.elapsed = 0,
              !.stats.jumps = 0, !.stats.score = 0,
              !.obstacles = <<>>, !.powerups = <<>>, !.letters = <<>>, !.coins = <<>>,
              !.state = RUNNING,
              !.shield_broken = FALSE,
              !.said = Append(@, "Run started")]

\* reset_run that puts the durations back to their base values
ResetRestoringDurations(c) ==
    [c EXCEPT !.player = NewPlayer, !.score = 0, !.multiplier = 1, !.elapsed = 0,
              !.stats.jumps = 0, !.stats.score = 0,
              !.obstacles = <<>>, !.powerups = <<>>, !.letters = <<>>, !.coins = <<>>,
              !.active_powerups = EmptyLedger,
              !.economy.powerup_durations = powerup_base_duration,
              !.state = RUNNING,
              !.shield_broken = FALSE,
              !.said = Append(@, "Run started")]

\* reset_run that also starts the word hunt and the season hunt afresh
ResetClearingHunts(c) ==
    [c EXCEPT !.player = NewPlayer, !.score = 0, !.multiplier = 1, !.elapsed = 0,
              !.stats.jumps = 0, !.stats.score = 0,
              !.obstacles = <<>>, !.powerups = <<>>, !.letters = <<>>, !.coins = <<>>,
              !.active_powerups = EmptyLedger,
              !.collected = <<>>, !.tokens = 0,
              !.state = RUNNING,
              !.shield_broken = FALSE,
              !.said = Append(@, "Run started")]

\* Game.reset_run
reset_run(c) ==
    [c EXCEPT !.player = NewPlayer, !.score = 0, !.multiplier = 1, !.elapsed = 0,
              !.stats.jumps = 0, !.stats.score = 0,
              !.obstacles = <<>>, !.powerups = <<>>, !.letters = <<>>, !.coins = <<>>,
              !.active_powerups = EmptyLedger,
              !.state = RUNNING,
              !.shield_broken = FALSE,
              !.said = Append(@, "Run started")]

\* continue_run_with_key that takes no key
ContinueKeepingKey(c) ==
    IF c.economy.keys <= 0 THEN c
    ELSE [c EXCEPT !.state = RUNNING,
                   !.player.hoverboard_active = TRUE,
                   !.player.hoverboard_timer = continue_hoverboard,
                   !.shield_broken = FALSE,
                   !.said = Append(@, "Continuing run")]

\* continue_run_with_key that starts the run afresh
ContinueResetting(c) ==
    IF c.economy.keys <= 0 THEN c
    ELSE [reset_run(c) EXCEPT !.economy.keys = @ - 1,
                              !.player.hoverboard_active = TRUE,
                              !.player.hoverboard_timer = continue_hoverboard,
                              !.said = <<"Continuing run">>]

\* Game.continue_run_with_key
continue_run_with_key(c) ==
    IF c.economy.keys <= 0 THEN c
    ELSE [c EXCEPT !.economy.keys = @ - 1,
                   !.state = RUNNING,
                   !.player.hoverboard_active = TRUE,
                   !.player.hoverboard_timer = continue_hoverboard,
                   !.shield_broken = FALSE,
                   !.said = Append(@, "Continuing run")]

\* the items of build_main_menu, build_shop_menu and build_achievements_menu
MenuActions(name) ==
    CASE name = "main" -> <<"start_run", "shop", "achievements", "quit">>
      [] name = "shop" -> <<"upgrade_jetpack", "upgrade_super_sneakers", "upgrade_magnet",
                            "upgrade_multiplier", "upgrade_hoverboard", "buy_mystery_box",
                            "open_mystery_box", "back">>
      [] name = "achievements" -> <<"none", "none", "none", "back">>
      [] OTHER -> <<>>

\* one label of AchievementSystem.list_status
Status(unl, name) == name \o (IF name \in unl THEN " - Unlocked" ELSE " - Locked")

MenuLabels(name, unl) ==
    CASE name = "main" -> <<"Start Run", "Shop", "Achievements", "Quit">>
      [] name = "shop" -> <<"Upgrade Jetpack Duration", "Upgrade Super Sneakers Duration",
                            "Upgrade Coin Magnet Duration", "Upgrade Multiplier Duration",
                            "Upgrade Hoverboard Duration", "Buy Mystery Box",
                            "Open Mystery Box", "Back">>
      [] name = "achievements" -> <<Status(unl, "High Jumper"), Status(unl, "Gold Digger"),
                                    Status(unl, "Marathon"), "Back">>
      [] OTHER -> <<>>

\* the lower-case first letter of each label, for Menu.jump_letter
MenuInitials(name) ==
    CASE name = "main" -> <<"s", "s", "a", "q">>
      [] name = "shop" -> <<"u", "u", "u", "u", "u", "b", "o", "b">>
      [] name = "achievements" -> <<"h", "g", "m", "b">>
      [] OTHER -> <<>>

NoMenu == [active |-> "None", index |-> 0, on_close |-> FALSE]

\* Menu.__init__ (it speaks the first label) followed by MenuController.open_menu;
\* on_close tells whether the callback return_to_main_menu is given
open_menu(c, name, on_close) ==
    [c EXCEPT !.menu = [active |-> name, index |-> 0, on_close |-> on_close],
              !.said = Append(@, MenuLabels(name, c.unlocked)[1])]

\* Game.return_to_main_menu
return_to_main_menu(c) == play_music(open_menu(c, "main", FALSE), "theme.ogg")

\* MenuController.close_menu
close_menu(c) ==
    LET c1 == IF c.menu.on_close THEN return_to_main_menu(c) ELSE c
    IN  [c1 EXCEPT !.menu = NoMenu]

\* Menu.move, jump_first, jump_last: go to index i (0-based) when it is another item
MenuGoto(c, i) ==
    IF i < 0 \/ i >= Len(MenuActions(c.menu.active)) \/ i = c.menu.index THEN c
    ELSE [c EXCEPT !.menu.index = i,
                   !.said = Append(@, MenuLabels(c.menu.active, c.unlocked)[i + 1])]

\* Menu.jump_letter
jump_letter(c, ch) ==
    LET ini == MenuInitials(c.menu.active)
        found == {i \in 1..Len(ini) : ini[i] = ch}
    IN  IF found = {} THEN c
        ELSE LET i == CHOOSE x \in found : \A y \in found : x <= y
             IN  [c EXCEPT !.menu.index = i - 1,
                           !.said = Append(@, MenuLabels(c.menu.active, c.unlocked)[i])]

\* Game.handle_upgrade
handle_upgrade(c, kind) ==
    LET r == buy_upgrade(c.economy, kind)
    IN  [c EXCEPT !.economy = r.e,
                  !.said = Append(@, IF r.ok THEN "Upgrade purchased" ELSE "Not enough coins")]

\* Game.handle_menu_action; reward is the draw of open_mystery_box
handle_menu_action(c, action, reward) ==
    CASE action = "start_run" -> stop_music([reset_run(c) EXCEPT !.menu.active = "None"])
      [] action = "shop" -> open_menu(c, "shop", TRUE)
      [] action = "achievements" ->
            play_music(open_menu(c, "achievements", TRUE), "achmusic.ogg")
      [] action = "quit" -> [c EXCEPT !.running = FALSE]
      [] action = "upgrade_jetpack" -> handle_upgrade(c, "jetpack")
      [] action = "upgrade_super_sneakers" -> handle_upgrade(c, "super_sneakers")
      [] action = "upgrade_magnet" -> handle_upgrade(c, "magnet")
      [] action = "upgrade_multiplier" -> handle_upgrade(c, "multiplier")
      [] action = "upgrade_hoverboard" -> handle_upgrade(c, "hoverboard")
      [] action = "buy_mystery_box" ->
            [c EXCEPT !.economy = buy_mystery_box(c.economy).e,
                      !.said = Append(@, IF buy_mystery_box(c.economy).ok
                                         THEN "Mystery box purchased"
                                         ELSE "Not enough coins")]
      [] action = "open_mystery_box" ->
            IF c.economy.mystery_boxes <= 0
            THEN [c EXCEPT !.said = Append(@, "No mystery boxes available")]
            ELSE [c EXCEPT !.economy = open_mystery_box(c.economy, reward).e,
                           !.said = Append(@, open_mystery_box(c.economy, reward).reward)]
      [] action = "back" -> return_to_main_menu(c)
      [] action = "none" -> [c EXCEPT !.said = Append(@, "Achievement status listed")]
      [] OTHER -> c

\* the letter keys of the model, with chr(event.key) for each
LetterKeys == [A |-> "a", B |-> "b", K |-> "k", O |-> "o", Q |-> "q", S |-> "s"]

\* MenuController.handle_input followed by the dispatch of Game.handle_input
MenuInput(c, key, reward) ==
    IF c.menu.active = "None" THEN c
    ELSE CASE key = "UP" -> MenuGoto(c, c.menu.index - 1)
           [] key = "DOWN" -> MenuGoto(c, c.menu.index + 1)
           [] key = "HOME" -> MenuGoto(c, 0)
           [] key = "END" -> MenuGoto(c, Len(MenuActions(c.menu.active)) - 1)
           [] key = "RETURN" ->
                 handle_menu_action(c, MenuActions(c.menu.active)[c.menu.index + 1], reward)
           [] key = "ESCAPE" -> close_menu(c)
           [] key \in DOMAIN LetterKeys -> jump_letter(c, LetterKeys[key])
           [] OTHER -> c

\* handle_input with Escape leaving a run for the menu
InputEscapingRun(c, key, reward) ==
    IF key = "PAGEUP" THEN adjust_music_volume(c, music_step)
    ELSE IF key = "PAGEDOWN" THEN adjust_music_volume(c, -music_step)
    ELSE IF c.state = MENU THEN MenuInput(c, key, reward)
    ELSE IF key = "ESCAPE" THEN return_to_main_menu([c EXCEPT !.state = MENU])
    ELSE IF c.state = GAME_OVER /\ key = "K" THEN continue_run_with_key(c)
    ELSE c

\* handle_input with the movement keys still at work after the crash
InputMovingAfterCrash(c, key, reward) ==
    IF key = "PAGEUP" THEN adjust_music_volume(c, music_step)
    ELSE IF key = "PAGEDOWN" THEN adjust_music_volume(c, -music_step)
    ELSE IF c.state = MENU THEN MenuInput(c, key, reward)
    ELSE IF c.state = GAME_OVER /\ key \in {"K", "ESCAPE"}
    THEN CASE key = "K" -> continue_run_with_key(c)
           [] key = "ESCAPE" -> return_to_main_menu([c EXCEPT !.state = MENU])
    ELSE CASE key = "LEFT" -> [c EXCEPT !.player = move_left(@)]
           [] key = "RIGHT" -> [c EXCEPT !.player = move_right(@)]
           [] key = "UP" ->
                 [c EXCEPT !.player = jump(@, IF c.player.super_sneakers
                                              THEN super_jump_duration ELSE jump_duration),
                           !.stats.jumps = @ + 1]
           [] key = "DOWN" -> [c EXCEPT !.player = roll(@, roll_duration)]
           [] OTHER -> c

\* Game.handle_input for a KEYDOWN event
handle_input(c, key, reward) ==
    IF key = "PAGEUP" THEN adjust_music_volume(c, music_step)
    ELSE IF key = "PAGEDOWN" THEN adjust_music_volume(c, -music_step)
    ELSE IF c.state = MENU THEN MenuInput(c, key, reward)
    ELSE IF c.state = GAME_OVER
    THEN CASE key = "K" -> continue_run_with_key(c)
           [] key = "ESCAPE" -> return_to_main_menu([c EXCEPT !.state = MENU])
           [] OTHER -> c
    ELSE CASE key = "LEFT" -> [c EXCEPT !.player = move_left(@)]
           [] key = "RIGHT" -> [c EXCEPT !.player = move_right(@)]
           [] key = "UP" ->
                 [c EXCEPT !.player = jump(@, IF c.player.super_sneakers
                                              THEN super_jump_duration ELSE jump_duration),
                           !.stats.jumps = @ + 1]
           [] key = "DOWN" -> [c EXCEPT !.player = roll(@, roll_duration)]
           [] OTHER -> c

(***************************************************************************)
(* The state machine: Game.run handles the pending events one by one and   *)
(* then calls update with the measured frame time.                         *)
(***************************************************************************)
Cur ==
    [running |-> running, state |-> state, player |-> player, score |-> score,
     elapsed |-> elapsed,
     multiplier |-> multiplier, stats |-> stats, obstacles |-> obstacles,
     powerups |-> powerups, letters |-> letters, coins |-> coins,
     obstacle_id |-> obstacle_id, looping_instances |-> looping_instances,
     channels |-> channels,
     active_powerups |-> active_powerups, economy |-> economy,
     collected |-> collected, hunt_letters |-> hunt_letters,
     tokens |-> tokens, unlocked |-> unlocked,
     menu |-> menu, said |-> <<>>, hits |-> <<>>, picks |-> <<>>,
     spelled |-> <<>>,
     effects |-> effects, shield_broken |-> shield_broken,
     mixer_call |-> mixer_call, audio_ready |-> audio_ready, music |-> music,
     music_volume |-> music_volume, raised |-> raised, cues |-> <<>>,
     lapsed |-> {}]

Set(c) ==
    /\ running' = c.running
    /\ state' = c.state
    /\ player' = c.player
    /\ score' = c.score
    /\ elapsed' = c.elapsed
    /\ multiplier' = c.multiplier
    /\ stats' = c.stats
    /\ obstacles' = c.obstacles
    /\ powerups' = c.powerups
    /\ letters' = c.letters
    /\ coins' = c.coins
    /\ obstacle_id' = c.obstacle_id
    /\ looping_instances' = c.looping_instances
    /\ channels' = c.channels
    /\ active_powerups' = c.active_powerups
    /\ economy' = c.economy
    /\ collected' = c.collected
    /\ hunt_letters' = c.hunt_letters
    /\ tokens' = c.tokens
    /\ unlocked' = c.unlocked
    /\ menu' = c.menu
    /\ said' = c.said
    /\ hits' = c.hits
    /\ picks' = c.picks
    /\ spelled' = c.spelled
    /\ effects' = c.effects
    /\ shield_broken' = c.shield_broken
    /\ mixer_call' = c.mixer_call
    /\ audio_ready' = c.audio_ready
    /\ music' = c.music
    /\ music_volume' = c.music_volume
    /\ raised' = c.raised

NoCall == [method |-> "None", tag |-> "", live |-> FALSE, pan |-> 0, distance |-> 0]

\* Game.__init__, ready telling whether pygame.mixer.init() succeeded: the
\* main menu is open and speaks its first label, and the theme plays if there
\* is a mixer
\* Game.__init__ with a configuration whose word_hunt_letters is word
ConstructedWith(ready, word) ==
    /\ running = TRUE
    /\ state = MENU
    /\ player = NewPlayer
    /\ score = 0
    /\ elapsed = 0
    /\ multiplier = 1
    /\ stats = [jumps |-> 0, total_coins |-> 0, score |-> 0]
    /\ obstacles = <<>>
    /\ powerups = <<>>
    /\ letters = <<>>
    /\ coins = <<>>
    /\ obstacle_id = 0
    /\ looping_instances = <<>>
    /\ channels = <<>>
    /\ active_powerups = EmptyLedger
    /\ economy = NewEconomy
    /\ collected = <<>>
    /\ hunt_letters = word
    /\ tokens = 0
    /\ unlocked = {}
    /\ menu = [active |-> "main", index |-> 0, on_close |-> FALSE]
    /\ said = <<"Start Run">>
    /\ hits = <<>>
    /\ picks = <<>>
    /\ spelled = <<>>
    /\ effects = [k \in LedgerKinds |-> NoEffect]
    /\ shield_broken = FALSE
    /\ mixer_call = NoCall
    /\ audio_ready = ready
    /\ music = IF ready THEN "theme.ogg" ELSE "None"
    /\ music_volume = default_music_volume
    /\ raised = FALSE

\* Game.__init__ with the configuration of config.py
Constructed(ready) == ConstructedWith(ready, word_hunt_letters)

\* the game with a mixer
Init == Constructed(TRUE)

\* one KEYDOWN event through Game.handle_input
HandleInput(key, reward) ==
    /\ running /\ ~raised
    /\ Set(handle_input(Cur, key, reward))

\* one call of Game.update
Update(dt, sp) ==
    /\ running /\ ~raised
    /\ \E c \in {update(Cur, dt, sp)} : Set(c)

(***************************************************************************)
(* The environment: keys, frame times and random draws, and the bounds     *)
(* that keep the reachable states finite.  Each specification below runs   *)
(* the same two handlers under its own choice of keys, frame times and     *)
(* draws.                                                                  *)
(***************************************************************************)
Rewards == {"Coins", "Keys", "Trophies"}

NoSpawn == [obstacle |-> <<>>, powerup |-> <<>>, letter |-> <<>>, season |-> <<>>,
            coin |-> <<>>]

\* the plans that spawn at most one entity in the frame
ObstaclePlans(draws) == {[NoSpawn EXCEPT !.obstacle = <<d>>] : d \in draws}
PowerupPlans(draws) == {[NoSpawn EXCEPT !.powerup = <<d>>] : d \in draws}
LetterPlans(ls) == {[NoSpawn EXCEPT !.letter = <<[lane |-> l]>>] : l \in ls}
SeasonPlans(ls) == {[NoSpawn EXCEPT !.season = <<[lane |-> l]>>] : l \in ls}
CoinPlans(ls) == {[NoSpawn EXCEPT !.coin = <<[lane |-> l]>>] : l \in ls}

\* a run lasts at most secs seconds: the score grows by at least 600 a second
Within(secs) == score <= score_rate * 60 * secs

\* a run lasts at most secs seconds, whatever the multiplier
RunTime(secs) == elapsed <= 10 * secs

(***************************************************************************)
(* Runs with obstacles against jumps, rolls, jetpack and hoverboard        *)
(***************************************************************************)
MaxObstacles == 2
MaxJumps == 1
MaxSeconds == 5
MaxHoverSeconds == 9
MaxJetpackObstacles == 1
MaxJetpackSeconds == 6

\* frames of 0.5 s and 3.5 s: a jump outlasts the short one, and the long one
\* brings in two obstacles spawned in consecutive short frames
Frames == {5, 35}

\* a power-up trial that succeeds only in the opening frame of a run
Opening(plans) == IF score = 0 THEN plans ELSE {}

\* a power-up trial that succeeds only in the first second of a run
Early(plans) == IF score < score_rate * 60 THEN plans ELSE {}

\* a trial that succeeds only in the first second and a half of a run
Warmup(plans) == IF 2 * score < 3 * score_rate * 60 THEN plans ELSE {}

(***************************************************************************)
(* One run with obstacles in the player's lane, jumps, rolls and a         *)
(* hoverboard on the track.                                                *)
(***************************************************************************)
KeysDodge ==
    CASE state = MENU -> {"RETURN"}
      [] state = RUNNING -> {"UP", "DOWN"}
      [] OTHER -> {}

PlansDodge ==
    {NoSpawn}
    \cup ObstaclePlans([lane : {1}, height : {"low", "high"}, kind : {"barrier"}])
    \cup Opening(PowerupPlans([lane : {1}, kind : {"hoverboard"}]))

BoundedDodge ==
    /\ obstacle_id <= MaxObstacles
    /\ stats.jumps <= MaxJumps
    /\ Within(MaxSeconds)

NextDodge ==
    \/ \E key \in KeysDodge : HandleInput(key, "Trophies") /\ BoundedDodge'
    \/ \E dt \in Frames, sp \in PlansDodge : Update(dt, sp) /\ BoundedDodge'

SpecDodge == Init /\ [][NextDodge]_vars

(***************************************************************************)
(* One run with a jetpack on the track and obstacles in two lanes.         *)
(***************************************************************************)
\* every trial succeeds only in the first second and a half of the run
PlansJetpack ==
    {NoSpawn}
    \cup Warmup(ObstaclePlans([lane : {0, 1}, height : {"low", "high"}, kind : {"barrier"}]))
    \cup Warmup(PowerupPlans([lane : {1}, kind : {"jetpack", "hoverboard"}]))

BoundedJetpack ==
    /\ obstacle_id <= MaxJetpackObstacles
    /\ stats.jumps <= MaxJumps
    /\ Within(MaxJetpackSeconds)

NextJetpack ==
    \/ \E key \in KeysDodge : HandleInput(key, "Trophies") /\ BoundedJetpack'
    \/ \E dt \in Frames, sp \in PlansJetpack : Update(dt, sp) /\ BoundedJetpack'

SpecJetpack == Init /\ [][NextJetpack]_vars

(***************************************************************************)
(* One longer run without jumps or rolls: a hoverboard, then obstacles.    *)
(***************************************************************************)
KeysHover ==
    CASE state = MENU -> {"RETURN"}
      [] OTHER -> {}

BoundedHover ==
    /\ obstacle_id <= MaxObstacles
    /\ Within(MaxHoverSeconds)

NextHover ==
    \/ \E key \in KeysHover : HandleInput(key, "Trophies") /\ BoundedHover'
    \/ \E dt \in Frames, sp \in PlansDodge : Update(dt, sp) /\ BoundedHover'

SpecHover == Init /\ [][NextHover]_vars
(***************************************************************************)
(* A session: word hunt letters and obstacles on the track, the shop, the  *)
(* mystery box, game over, the continue key and the way back to the menu.  *)
(***************************************************************************)
MaxLetters == 2
MaxSessionObstacles == 2
MaxSessionSeconds == 14
MaxCoins == 500

\* frames of 2 s and 4 s: an entity arrives after two short frames or one long
LongFrames == {20, 40}

KeysSession ==
    CASE state = MENU -> {"RETURN", "DOWN", "END", "B", "O", "ESCAPE"}
      [] state = RUNNING -> {"ESCAPE"}
      [] OTHER -> {"K", "ESCAPE"}

PlansSession ==
    {NoSpawn}
    \cup ObstaclePlans([lane : {1}, height : {"low"}, kind : {"barrier"}])
    \cup LetterPlans({1})

BoundedSession ==
    /\ obstacle_id <= MaxSessionObstacles
    /\ Len(letters) <= MaxLetters
    /\ economy.coins <= MaxCoins
    /\ Within(MaxSessionSeconds)

NextSession ==
    \/ \E key \in KeysSession, reward \in Rewards :
            HandleInput(key, reward) /\ BoundedSession'
    \/ \E dt \in LongFrames, sp \in PlansSession : Update(dt, sp) /\ BoundedSession'

SpecSession == Init /\ [][NextSession]_vars

(***************************************************************************)
(* Timed effects: one power-up of a ledger kind at the start of a run, one *)
(* obstacle, game over and a second run.                                   *)
(***************************************************************************)
MaxLedgerObstacles == 1
MaxLedgerSeconds == 16

KeysLedger ==
    CASE state = MENU -> {"RETURN"}
      [] state = RUNNING -> {}
      [] OTHER -> {"ESCAPE"}

PlansLedger ==
    {NoSpawn}
    \cup ObstaclePlans([lane : {1}, height : {"low"}, kind : {"barrier"}])
    \cup Early(PowerupPlans([lane : {1}, kind : LedgerKinds]))

BoundedLedger ==
    /\ obstacle_id <= MaxLedgerObstacles
    /\ Within(MaxLedgerSeconds)

NextLedger ==
    \/ \E key \in KeysLedger : HandleInput(key, "Trophies") /\ BoundedLedger'
    \/ \E dt \in LongFrames, sp \in PlansLedger : Update(dt, sp) /\ BoundedLedger'

SpecLedger == Init /\ [][NextLedger]_vars

(***************************************************************************)
(* Coins in two lanes, lane changes and a magnet at the start of the run.  *)
(***************************************************************************)
MaxCoinsInFlight == 2
MaxCoinSeconds == 16

KeysCoins ==
    CASE state = MENU -> {"RETURN"}
      [] state = RUNNING -> {"LEFT", "RIGHT"}
      [] OTHER -> {}

PlansCoins ==
    {NoSpawn}
    \cup Early(PowerupPlans([lane : {1}, kind : {"magnet"}]))
    \cup CoinPlans({0, 1})

BoundedCoins ==
    /\ Len(coins) <= MaxCoinsInFlight
    /\ Within(MaxCoinSeconds)

NextCoins ==
    \/ \E key \in KeysCoins : HandleInput(key, "Trophies") /\ BoundedCoins'
    \/ \E dt \in LongFrames, sp \in PlansCoins : Update(dt, sp) /\ BoundedCoins'

SpecCoins == Init /\ [][NextCoins]_vars

(***************************************************************************)
(* The track: entities of all four types in flight, frames that may take   *)
(* no time, game over and a new run.  The player stays in lane 1, where    *)
(* the obstacles and the season tokens come in.                            *)
(***************************************************************************)
MaxEntities == 2
MaxTrackObstacles == 1
MaxTrackSeconds == 6

TrackFrames == {0, 20, 40}

KeysTrack ==
    CASE state = MENU -> {"RETURN"}
      [] state = RUNNING -> {}
      [] OTHER -> {"ESCAPE"}

PlansTrack ==
    {NoSpawn}
    \cup ObstaclePlans([lane : {1}, height : {"low"}, kind : {"barrier", "train"}])
    \cup PowerupPlans([lane : {0}, kind : {"magnet"}])
    \cup SeasonPlans({1})
    \cup LetterPlans({0})
    \cup CoinPlans({0})

BoundedTrack ==
    /\ Len(obstacles) + Len(powerups) + Len(letters) + Len(coins) <= MaxEntities
    /\ obstacle_id <= MaxTrackObstacles
    /\ Within(MaxTrackSeconds)

NextTrack ==
    \/ \E key \in KeysTrack : HandleInput(key, "Trophies") /\ BoundedTrack'
    \/ \E dt \in TrackFrames, sp \in PlansTrack : Update(dt, sp) /\ BoundedTrack'

SpecTrack == Init /\ [][NextTrack]_vars

(***************************************************************************)
(* A session with a key: whole frames of 4 s, in which whatever was        *)
(* spawned in one frame arrives in the next; a word hunt, the mystery box, *)
(* a power-up at the start of a run, game over, the continue key and a new *)
(* run.                                                                    *)
(***************************************************************************)
MaxContinueObstacles == 2
MaxContinueSeconds == 24
MaxContinueCoins == 500

WholeFrames == {40}

KeysContinue ==
    CASE state = MENU -> {"RETURN", "DOWN", "B", "O", "ESCAPE"}
      [] state = RUNNING -> {}
      [] OTHER -> {"K", "ESCAPE"}

PlansContinue ==
    {NoSpawn}
    \cup ObstaclePlans([lane : {1}, height : {"low"}, kind : {"barrier"}])
    \cup LetterPlans({1})
    \cup Opening(PowerupPlans([lane : {1}, kind : {"jetpack", "multiplier"}]))

BoundedContinue ==
    /\ obstacle_id <= MaxContinueObstacles
    /\ economy.coins <= MaxContinueCoins
    /\ RunTime(MaxContinueSeconds)

NextContinue ==
    \/ \E key \in KeysContinue, reward \in Rewards :
            HandleInput(key, reward) /\ BoundedContinue'
    \/ \E dt \in WholeFrames, sp \in PlansContinue : Update(dt, sp) /\ BoundedContinue'

SpecContinue == Init /\ [][NextContinue]_vars

(***************************************************************************)
(* The shop: one run whose word hunt pays for upgrades and mystery boxes,  *)
(* and boxes that may pay for more.  The player plays one run and then     *)
(* only shops.                                                             *)
(***************************************************************************)
MaxShopObstacles == 1
MaxShopSeconds == 24
MaxShopCoins == 1000
MaxShopKeys == 1
MaxShopBoxes == 2
MaxShopUpgrades == 2

\* in the shop the cursor goes to the first item and the two box items only
KeysShop ==
    CASE state = MENU /\ menu.active = "main" ->
            IF menu.index = 0 /\ score > 0 THEN {"DOWN"} ELSE {"RETURN", "DOWN"}
      [] state = MENU /\ menu.active # "main" -> {"RETURN", "B", "O", "ESCAPE"}
      [] state = RUNNING -> {}
      [] OTHER -> {"ESCAPE"}

PlansShop ==
    {NoSpawn}
    \cup ObstaclePlans([lane : {1}, height : {"low"}, kind : {"barrier"}])
    \cup LetterPlans({1})

\* the number of upgrades bought so far
Upgrades(e) ==
    LET up(k) == (e.powerup_durations[k] - powerup_base_duration[k]) \div upgrade_increment
    IN  up("jetpack") + up("super_sneakers") + up("magnet") + up("multiplier")
        + up("hoverboard")

BoundedShop ==
    /\ obstacle_id <= MaxShopObstacles
    /\ economy.coins <= MaxShopCoins
    /\ economy.keys <= MaxShopKeys
    /\ economy.mystery_boxes <= MaxShopBoxes
    /\ Upgrades(economy) <= MaxShopUpgrades
    /\ RunTime(MaxShopSeconds)

NextShop ==
    \/ \E key \in KeysShop, reward \in Rewards :
            HandleInput(key, reward) /\ BoundedShop'
    \/ \E dt \in WholeFrames, sp \in PlansShop : Update(dt, sp) /\ BoundedShop'

SpecShop == Init /\ [][NextShop]_vars

(***************************************************************************)
(* Achievements.  The thresholds are 100 jumps, 5000 coins and a score of  *)
(* 100000, so this specification starts inside a first run that is close   *)
(* to them: 164 s played and a score of 98400, 99 jumps or none, 4999      *)
(* coins or none, a coin 4 s away or none.  The run goes on with jumps and  *)
(* coins, ends at a high barrier, and a short second run follows.          *)
(***************************************************************************)
MaxAchieveObstacles == 1
MaxAchieveJumps == 101
MaxAchieveCoins == 5001
MaxAchieveSeconds == 176
MaxAchieveRerun == 8

NearScore == score_rate * 60 * 164

InitAchieve ==
    \E j \in {0, jumps_threshold - 1}, tc \in {0, coins_threshold - 1},
       cs \in {<<>>, <<[lane |-> 1, distance |-> max_distance, active |-> TRUE]>>} :
        /\ running = TRUE
        /\ state = RUNNING
        /\ player = NewPlayer
        /\ score = NearScore
        /\ elapsed = NearScore \div (6 * score_rate)
        /\ multiplier = 1
        /\ stats = [jumps |-> j, total_coins |-> tc, score |-> NearScore]
        /\ obstacles = <<>>
        /\ powerups = <<>>
        /\ letters = <<>>
        /\ coins = cs
        /\ obstacle_id = 0
        /\ looping_instances = <<>>
        /\ channels = <<>>
        /\ active_powerups = EmptyLedger
        /\ economy = [NewEconomy EXCEPT !.coins = tc]
        /\ collected = <<>>
        /\ hunt_letters = word_hunt_letters
        /\ tokens = 0
        /\ unlocked = {}
        /\ menu = NoMenu
        /\ said = <<>>
        /\ hits = <<>>
        /\ picks = <<>>
        /\ spelled = <<>>
        /\ effects = [k \in LedgerKinds |-> NoEffect]
        /\ shield_broken = FALSE
        /\ mixer_call = NoCall
        /\ audio_ready = TRUE
        /\ music = "None"
        /\ music_volume = default_music_volume
        /\ raised = FALSE

KeysAchieve ==
    CASE state = MENU -> {"RETURN"}
      [] state = RUNNING -> {"UP"}
      [] OTHER -> {"ESCAPE"}

PlansAchieve ==
    {NoSpawn}
    \cup ObstaclePlans([lane : {1}, height : {"high"}, kind : {"barrier"}])
    \cup CoinPlans({1})

BoundedAchieve ==
    /\ obstacle_id <= MaxAchieveObstacles
    /\ stats.jumps <= MaxAchieveJumps
    /\ stats.total_coins <= MaxAchieveCoins
    /\ RunTime(MaxAchieveSeconds)
    /\ score < NearScore => RunTime(MaxAchieveRerun)

NextAchieve ==
    \/ \E key \in KeysAchieve : HandleInput(key, "Trophies") /\ BoundedAchieve'
    \/ \E dt \in WholeFrames, sp \in PlansAchieve : Update(dt, sp) /\ BoundedAchieve'

SpecAchieve == InitAchieve /\ [][NextAchieve]_vars

(***************************************************************************)
(* The sound manager on its own: any caller, any order of start_loop,      *)
(* stop_loop, update_loop and update_loop_with_pan on two tags, with lanes *)
(* and distances from the ends of their ranges and one sound that is not   *)
(* in the sound directory.  The game stays in its first menu.              *)
(***************************************************************************)
MixerTags == {"jetpack", "obstacle_1"}

MixerNames == {"jetpack_loop", "barrier_low", "missing"}

MixerLanes == {0, 1}

MixerDistances == {0, max_distance}

MixerPans == {-8000}

\* the sound manager after a call, the game as it was
\* pan and distance are what the call sets the volume from
Called(c, method, tag, pan, distance) ==
    /\ looping_instances' = c.looping_instances
    /\ channels' = c.channels
    /\ mixer_call' = [method |-> method, tag |-> tag,
                      live |-> tag \in DOMAIN looping_instances,
                      pan |-> pan, distance |-> distance]
    /\ UNCHANGED <<running, state, player, score, elapsed, multiplier, stats, obstacles,
                   powerups, letters, coins, obstacle_id, active_powerups, economy,
                   collected, hunt_letters, tokens, unlocked, menu, said, hits, picks,
                   spelled,
                   effects, shield_broken, audio_ready, music, music_volume, raised>>

StartLoop(tag, name, lane, distance) ==
    Called(start_loop(Cur, tag, name, lane, distance), "start_loop", tag,
           PanOf(lane), distance)

StopLoop(tag) == Called(stop_loop(Cur, tag), "stop_loop", tag, 0, 0)

UpdateLoop(tag, lane, distance) ==
    Called(update_loop(Cur, tag, lane, distance), "update_loop", tag,
           PanOf(lane), distance)

UpdateLoopWithPan(tag, pan, distance) ==
    Called(update_loop_with_pan(Cur, tag, pan, distance), "update_loop_with_pan", tag,
           pan, distance)

NextMixer ==
    \/ \E tag \in MixerTags, name \in MixerNames, lane \in MixerLanes,
          distance \in MixerDistances : StartLoop(tag, name, lane, distance)
    \/ \E tag \in MixerTags : StopLoop(tag)
    \/ \E tag \in MixerTags, lane \in MixerLanes, distance \in MixerDistances :
            UpdateLoop(tag, lane, distance)
    \/ \E tag \in MixerTags, pan \in MixerPans, distance \in MixerDistances :
            UpdateLoopWithPan(tag, pan, distance)

SpecMixer == Init /\ [][NextMixer]_vars

(***************************************************************************)
(* The channel pool: one-shot sounds that are still playing and two loops  *)
(* that are not stopped, on the 32 channels of the mixer, until no channel *)
(* is idle and beyond.                                                     *)
(***************************************************************************)
PlaySound(name, lane, distance) ==
    Called(play_sound(Cur, name, lane, distance, 0), "play_sound", "",
           PanOf(lane), distance)

PoolSounds == {"coin_collect"}

PoolLoops == {"jetpack_loop"}

NextPool ==
    \/ \E name \in PoolSounds : PlaySound(name, 1, 0)
    \/ \E tag \in MixerTags, name \in PoolLoops : StartLoop(tag, name, 1, 0)

SpecPool == Init /\ [][NextPool]_vars

(***************************************************************************)
(* Volumes: one loop and the one-shot sounds of lane 0, which end, with    *)
(* pans and distances inside, at the ends of and outside their ranges;     *)
(* lane 3 is not a key of lane_pan.                                        *)
(***************************************************************************)
MaxGainSounds == 1

GainTag == "obstacle_1"

GainLanes == {0, 3}

GainDistances == {-250, 0, 250, max_distance, max_distance + 250}

GainPans == {-12000, 6000, 12000}

\* the sound of a channel that does not loop comes to its end
SoundEnds(n) ==
    /\ \E i \in DOMAIN channels : channels[i].channel = n /\ channels[i].loops = 0
    /\ channels' = Stopped(channels, n)
    /\ mixer_call' = NoCall
    /\ UNCHANGED <<running, state, player, score, elapsed, multiplier, stats, obstacles,
                   powerups, letters, coins, obstacle_id, active_powerups, economy,
                   collected, hunt_letters, tokens, unlocked, menu, said, hits, picks,
                   spelled,
                   effects, shield_broken, looping_instances, audio_ready, music,
                   music_volume, raised>>

BoundedGain ==
    Cardinality({i \in DOMAIN channels : channels[i].loops = 0}) <= MaxGainSounds

NextGain ==
    \/ \E lane \in GainLanes, distance \in GainDistances :
            StartLoop(GainTag, "train_rumble", lane, distance)
    \/ StopLoop(GainTag)
    \/ \E lane \in GainLanes, distance \in GainDistances :
            UpdateLoop(GainTag, lane, distance)
    \/ \E pan \in GainPans, distance \in GainDistances :
            UpdateLoopWithPan(GainTag, pan, distance)
    \/ \E distance \in GainDistances :
            PlaySound("train_honk", 0, distance) /\ BoundedGain'
    \/ \E n \in 0 .. mixer_channels - 1 : SoundEnds(n)

SpecGain == Init /\ [][NextGain]_vars

(***************************************************************************)
(* The music: a game with a mixer or without one, the volume keys in the   *)
(* menu, in a run and after game over, and runs that end at a barrier.     *)
(***************************************************************************)
MaxAudioObstacles == 1
MaxAudioSeconds == 8

InitAudio == \E ready \in BOOLEAN : Constructed(ready)

KeysAudio ==
    CASE state = MENU -> {"RETURN", "PAGEUP", "PAGEDOWN"}
      [] state = RUNNING -> {"PAGEUP", "PAGEDOWN"}
      [] OTHER -> {"ESCAPE", "PAGEUP", "PAGEDOWN"}

PlansAudio ==
    {NoSpawn} \cup ObstaclePlans([lane : {1}, height : {"low"}, kind : {"barrier"}])

BoundedAudio ==
    /\ obstacle_id <= MaxAudioObstacles
    /\ Within(MaxAudioSeconds)

NextAudio ==
    \/ \E key \in KeysAudio, reward \in Rewards : HandleInput(key, reward) /\ BoundedAudio'
    \/ \E dt \in WholeFrames, sp \in PlansAudio : Update(dt, sp) /\ BoundedAudio'

SpecAudio == InitAudio /\ [][NextAudio]_vars

(***************************************************************************)
(* Upgrades: runs whose word hunts pay for upgrades, the shop, and a later *)
(* run with a power-up at its start; whole frames of 4 s.                  *)
(***************************************************************************)
MaxUpgradeObstacles == 2
MaxUpgradeSeconds == 24
MaxUpgradeCoins == 1000

KeysUpgrade ==
    CASE state = MENU -> {"RETURN", "DOWN", "END"}
      [] state = RUNNING -> {}
      [] OTHER -> {"ESCAPE"}

PlansUpgrade ==
    {NoSpawn}
    \cup ObstaclePlans([lane : {1}, height : {"low"}, kind : {"barrier"}])
    \cup LetterPlans({1})
    \cup Opening(PowerupPlans([lane : {1}, kind : {"super_sneakers", "hoverboard"}]))

BoundedUpgrade ==
    /\ obstacle_id <= MaxUpgradeObstacles
    /\ economy.coins <= MaxUpgradeCoins
    /\ RunTime(MaxUpgradeSeconds)

NextUpgrade ==
    \/ \E key \in KeysUpgrade : HandleInput(key, "Trophies") /\ BoundedUpgrade'
    \/ \E dt \in WholeFrames, sp \in PlansUpgrade : Update(dt, sp) /\ BoundedUpgrade'

SpecUpgrade == Init /\ [][NextUpgrade]_vars

(***************************************************************************)
(* The scenario of one barrier: a run in which the player neither moves    *)
(* nor jumps and no power-up comes, one low barrier in lane 1, and frames  *)
(* that all take time.  The run may wait for the barrier for a bounded     *)
(* time; once the barrier is on the track the frames go on without a bound.*)
(* Game.run calls update in every turn of its loop, so an update that is   *)
(* possible is eventually made.                                            *)
(***************************************************************************)
MaxScenarioObstacles == 1
MaxScenarioSeconds == 6

ScenarioFrames == {5, 35}

KeysScenario ==
    CASE state = MENU -> {"RETURN"}
      [] state = RUNNING -> {}
      [] OTHER -> {"ESCAPE"}

PlansScenario ==
    {NoSpawn} \cup ObstaclePlans([lane : {1}, height : {"low"}, kind : {"barrier"}])

BoundedScenario ==
    /\ obstacle_id <= MaxScenarioObstacles
    /\ state = RUNNING /\ obstacles = <<>> => Within(MaxScenarioSeconds)

Frame == \E dt \in ScenarioFrames, sp \in PlansScenario : Update(dt, sp) /\ BoundedScenario'

NextScenario ==
    \/ \E key \in KeysScenario : HandleInput(key, "Trophies") /\ BoundedScenario'
    \/ Frame

SpecScenario == Init /\ [][NextScenario]_vars

FairScenario == SpecScenario /\ WF_vars(Frame)

(***************************************************************************)
(* The order within a frame: one run of up to 38 s with one obstacle in    *)
(* the player's lane and a jetpack or a hoverboard at the start, so that   *)
(* the jetpack (10 s) and the hoverboard (30 s) can run out in the frame   *)
(* that brings the obstacle in.  The player jumps and rolls only with an   *)
(* obstacle on the track, and only then are there short frames; a jump     *)
(* outlasts the short frame and not the long one.                          *)
(***************************************************************************)
MaxOrderObstacles == 1
MaxOrderJumps == 1
MaxOrderSeconds == 38

OrderFrames == IF obstacles # <<>> THEN {5, 40} ELSE {40}

KeysOrder ==
    CASE state = MENU -> {"RETURN"}
      [] state = RUNNING /\ obstacles # <<>> -> {"UP", "DOWN"}
      [] OTHER -> {}

\* an obstacle is spawned only on an empty track
PlansOrder ==
    {NoSpawn}
    \cup (IF obstacles = <<>>
          THEN ObstaclePlans([lane : {1}, height : {"low", "high"}, kind : {"barrier"}])
          ELSE {})
    \cup Opening(PowerupPlans([lane : {1}, kind : {"jetpack", "hoverboard"}]))

BoundedOrder ==
    /\ obstacle_id <= MaxOrderObstacles
    /\ stats.jumps <= MaxOrderJumps
    /\ RunTime(MaxOrderSeconds)

NextOrder ==
    \/ \E key \in KeysOrder : HandleInput(key, "Trophies") /\ BoundedOrder'
    \/ \E dt \in OrderFrames, sp \in PlansOrder : Update(dt, sp) /\ BoundedOrder'

SpecOrder == Init /\ [][NextOrder]_vars

(***************************************************************************)
(* What a new run keeps: a first run of whole frames with letters, coins   *)
(* and a season token in the player's lane, ended by an obstacle; the shop, *)
(* where the word hunt's reward pays for the jetpack upgrade or a mystery  *)
(* box; and a second run.                                                  *)
(***************************************************************************)
MaxKeepObstacles == 1
MaxKeepSeconds == 32
MaxKeepCoins == 501
MaxKeepTokens == 1

\* from the main menu to the run or the shop; in the shop to the first item,
\* the two box items and Back
KeysKeep ==
    CASE state = MENU /\ menu.active = "main" ->
            IF menu.index = 0 THEN {"RETURN", "DOWN"} ELSE {"RETURN"}
      [] state = MENU /\ menu.active = "shop" -> {"RETURN", "B", "O", "END"}
      [] state = GAME_OVER -> {"ESCAPE"}
      [] OTHER -> {}

PlansKeep ==
    {NoSpawn}
    \cup ObstaclePlans([lane : {1}, height : {"low"}, kind : {"barrier"}])
    \cup LetterPlans({1})
    \cup SeasonPlans({1})
    \cup CoinPlans({1})

BoundedKeep ==
    /\ obstacle_id <= MaxKeepObstacles
    /\ economy.coins <= MaxKeepCoins
    /\ tokens <= MaxKeepTokens
    /\ RunTime(MaxKeepSeconds)

NextKeep ==
    \/ \E key \in KeysKeep, reward \in Rewards : HandleInput(key, reward) /\ BoundedKeep'
    \/ \E dt \in WholeFrames, sp \in PlansKeep : Update(dt, sp) /\ BoundedKeep'

SpecKeep == Init /\ [][NextKeep]_vars

(***************************************************************************)
(* A timed effect picked up again: one run without obstacles, a power-up   *)
(* of a ledger kind in the opening frame and, while the ledger holds a     *)
(* kind, more power-ups of that kind, all in the player's lane.            *)
(***************************************************************************)
MaxRefreshSeconds == 30

RefreshFrames == {20, 40}

KeysRefresh ==
    CASE state = MENU -> {"RETURN"}
      [] OTHER -> {}

PlansRefresh ==
    {NoSpawn}
    \cup Opening(PowerupPlans([lane : {1}, kind : LedgerKinds]))
    \cup PowerupPlans([lane : {1}, kind : DOMAIN active_powerups])

BoundedRefresh == RunTime(MaxRefreshSeconds)

NextRefresh ==
    \/ \E key \in KeysRefresh : HandleInput(key, "Trophies") /\ BoundedRefresh'
    \/ \E dt \in RefreshFrames, sp \in PlansRefresh : Update(dt, sp) /\ BoundedRefresh'

SpecRefresh == Init /\ [][NextRefresh]_vars

(***************************************************************************)
(* Every key in every state: the four movement keys, Return, Escape, the   *)
(* continue key and a volume key, over short runs that an obstacle in lane *)
(* 1 ends and the menu starts again.                                       *)
(***************************************************************************)
MaxGateObstacles == 2
MaxGateJumps == 1
MaxGateSeconds == 8

KeysGate == {"LEFT", "RIGHT", "UP", "DOWN", "RETURN", "ESCAPE", "K", "PAGEUP"}

PlansGate ==
    {NoSpawn} \cup ObstaclePlans([lane : {1}, height : {"low"}, kind : {"barrier"}])

BoundedGate ==
    /\ obstacle_id <= MaxGateObstacles
    /\ stats.jumps <= MaxGateJumps
    /\ RunTime(MaxGateSeconds)

NextGate ==
    \/ \E key \in KeysGate : HandleInput(key, "Trophies") /\ BoundedGate'
    \/ \E dt \in WholeFrames, sp \in PlansGate : Update(dt, sp) /\ BoundedGate'

SpecGate == Init /\ [][NextGate]_vars

(***************************************************************************)
(* The word hunt over its targets: the game is built with the word of      *)
(* config.py or with a short word over two letters, the empty word among   *)
(* them, and one run spawns letters in the player's lane and next to it.   *)
(***************************************************************************)
MaxWord == 2
MaxHuntSeconds == 20

\* the words of at most n letters over H and U
Words(n) == UNION {[1..k -> {"H", "U"}] : k \in 0..n}

Targets == {word_hunt_letters} \cup Words(MaxWord)

HuntFrames == {20, 40}

KeysHunt ==
    CASE state = MENU -> {"RETURN"}
      [] OTHER -> {}

PlansHunt == {NoSpawn} \cup LetterPlans({0, 1})

BoundedHunt == RunTime(MaxHuntSeconds)

InitHunt == \E word \in Targets : ConstructedWith(TRUE, word)

NextHunt ==
    \/ \E key \in KeysHunt : HandleInput(key, "Trophies") /\ BoundedHunt'
    \/ \E dt \in HuntFrames, sp \in PlansHunt : Update(dt, sp) /\ BoundedHunt'

SpecHunt == InitHunt /\ [][NextHunt]_vars

(***************************************************************************)
(* The track cleared: one run in which the player stays in lane 1 and, for *)
(* a bounded time, a frame may spawn an obstacle, a power-up, a letter, a  *)
(* season token or a coin in lane 0 or 1.  Every frame takes time, and the *)
(* frames go on until whatever was spawned has had the time to arrive.     *)
(* Game.run calls update in every turn of its loop, so an update that is   *)
(* possible is eventually made.                                            *)
(***************************************************************************)
MaxClearSeconds == 8

ClearFrames == {20, 40}

\* the time an entity takes from max_distance to the player, in tenths
TravelTime == max_distance \div base_speed

KeysClear ==
    CASE state = MENU -> {"RETURN"}
      [] OTHER -> {}

PlansClear ==
    IF elapsed < 10 * MaxClearSeconds
    THEN {NoSpawn}
         \cup ObstaclePlans([lane : {0, 1}, height : {"low"}, kind : {"barrier"}])
         \cup PowerupPlans([lane : {0}, kind : {"magnet"}])
         \cup LetterPlans({1}) \cup SeasonPlans({1}) \cup CoinPlans({0})
    ELSE {NoSpawn}

BoundedClear == elapsed <= 10 * MaxClearSeconds + 2 * TravelTime

FrameClear == \E dt \in ClearFrames, sp \in PlansClear : Update(dt, sp) /\ BoundedClear'

NextClear ==
    \/ \E key \in KeysClear : HandleInput(key, "Trophies") /\ BoundedClear'
    \/ FrameClear

SpecClear == Init /\ [][NextClear]_vars

FairClear == SpecClear /\ WF_vars(FrameClear)

(***************************************************************************)
(* Arrivals in and out of the player's lane: obstacles and letters come in *)
(* in lane 1, season tokens and coins in lane 0, and the player moves      *)
(* between the lanes; frames may take no time.  One run, to its game over. *)
(***************************************************************************)
MaxArriveEntities == 2
MaxArriveObstacles == 2
MaxArriveSeconds == 6

ArriveFrames == {0, 20, 40}

KeysArrive ==
    CASE state = MENU -> {"RETURN"}
      [] state = RUNNING -> {"LEFT", "RIGHT"}
      [] OTHER -> {}

PlansArrive ==
    {NoSpawn}
    \cup ObstaclePlans([lane : {1}, height : {"low"}, kind : {"barrier"}])
    \cup SeasonPlans({0})
    \cup LetterPlans({1})
    \cup CoinPlans({0})

\* the player stays in the lanes 0 and 1
BoundedArrive ==
    /\ Len(obstacles) + Len(powerups) + Len(letters) + Len(coins) <= MaxArriveEntities
    /\ obstacle_id <= MaxArriveObstacles
    /\ Within(MaxArriveSeconds)
    /\ player.lane \in {0, 1}

NextArrive ==
    \/ \E key \in KeysArrive : HandleInput(key, "Trophies") /\ BoundedArrive'
    \/ \E dt \in ArriveFrames, sp \in PlansArrive : Update(dt, sp) /\ BoundedArrive'

SpecArrive == Init /\ [][NextArrive]_vars

(***************************************************************************)
(* Obstacles at arrival.  hits holds one record per obstacle that reached  *)
(* distance <= 0 in the last update, in the order of the loop.             *)
(***************************************************************************)
Hits == {hits[i] : i \in 1..Len(hits)}

InLane(h) == h.lane = h.plane

PassesThrough(h) ==
    \/ h.height = "low" /\ h.jumping
    \/ h.height = "high" /\ h.rolling

Names(cues) == {cues[i].name : i \in 1..Len(cues)}

\* C1: an obstacle arriving in the player's lane, low while the player jumps
\* or high while the player rolls, triggers no collision resolution: the state
\* and the hoverboard stay as they were, no cue plays and nothing is announced
C1_PassThrough ==
    \A h \in Hits :
        InLane(h) /\ PassesThrough(h) =>
            /\ h.state1 = h.state0
            /\ h.hover1 = h.hover0
            /\ h.cues = <<>>
            /\ h.nsaid = 0

\* a low obstacle arrived under a jumping player who rides a hoverboard
C1_Witness ==
    \E h \in Hits :
        /\ InLane(h) /\ h.height = "low" /\ h.jumping
        /\ h.hover0 /\ h.hover1
        /\ h.state0 = RUNNING /\ state = RUNNING

\* C2: an obstacle arriving in the player's lane that does not pass through,
\* with neither jetpack nor hoverboard, leaves the state GAME_OVER, and the
\* game-over resolution (crash cue, announcement) runs for the obstacle that
\* makes the transition from RUNNING and for no other
C2_CollisionOnce ==
    \A h \in Hits :
        InLane(h) /\ ~PassesThrough(h) /\ ~h.jetpack /\ ~h.hover0 =>
            /\ h.state1 = GAME_OVER
            /\ "crash" \in Names(h.cues) <=> h.state0 = RUNNING
            /\ h.nsaid > 0 <=> h.state0 = RUNNING

\* C3: an obstacle arriving while the jetpack is on changes neither the state
\* nor the hoverboard and plays no collision cue, whatever its lane and height
\* and whether the player jumps, rolls or rides a hoverboard
C3_JetpackSupersedes ==
    \A h \in Hits :
        h.jetpack =>
            /\ h.state1 = h.state0
            /\ h.hover1 = h.hover0
            /\ h.cues = <<>>

\* an obstacle hit a player in its lane who had jetpack and hoverboard on
C3_Witness ==
    \E h \in Hits :
        /\ h.jetpack /\ InLane(h) /\ ~PassesThrough(h)
        /\ h.hover0 /\ h.hover1
        /\ state = RUNNING

\* C4: a colliding obstacle (no jetpack) that meets an active hoverboard turns
\* it off and leaves the state alone; one that comes after a hoverboard broke,
\* with no hoverboard picked up since, ends with the state GAME_OVER
C4_HoverboardSingleUse ==
    \A h \in Hits :
        InLane(h) /\ ~PassesThrough(h) /\ ~h.jetpack =>
            /\ h.hover0 =>
                    /\ ~h.hover1
                    /\ h.state1 = h.state0
                    /\ Names(h.cues) = {"hoverboard_break"}
            /\ h.broken0 /\ ~h.hover0 => h.state1 = GAME_OVER

\* two obstacles collided in one frame: the first broke the hoverboard, the
\* second ended the run
C4_Witness ==
    /\ Len(hits) = 2
    /\ InLane(hits[1]) /\ hits[1].hover0 /\ ~hits[1].hover1
    /\ hits[1].state1 = RUNNING
    /\ InLane(hits[2]) /\ hits[2].broken0 /\ hits[2].state0 = RUNNING
    /\ hits[2].state1 = GAME_OVER
(***************************************************************************)
(* The word hunt, the state machine and the continue key                   *)
(***************************************************************************)
\* C6: a letter pickup signals completion exactly when the letters collected
\* so far followed by the new one spell the target sequence, and completion
\* leaves the collected progress empty
C6_WordHuntCompletion ==
    \A i \in 1..Len(spelled) :
        /\ spelled[i].completed <=>
                Append(spelled[i].before, spelled[i].letter) = word_hunt_letters
        /\ spelled[i].completed => spelled[i].after = <<>>

UnshieldedCollision(h) ==
    /\ InLane(h) /\ ~PassesThrough(h) /\ ~h.jetpack /\ ~h.hover0
    /\ h.state0 = RUNNING /\ h.state1 = GAME_OVER

\* C9: every step that changes the game state is one of MENU to RUNNING with
\* Start Run selected, RUNNING to GAME_OVER in an update with an unshielded
\* collision, GAME_OVER to RUNNING with a key spent, GAME_OVER to MENU with
\* the main menu opened
C9_FourTransitions ==
    [][state' # state =>
        \/ /\ state = MENU /\ state' = RUNNING
           /\ menu.active = "main" /\ menu.index = 0
           /\ said' = <<"Run started">>
        \/ /\ state = RUNNING /\ state' = GAME_OVER
           /\ \E i \in 1..Len(hits') : UnshieldedCollision(hits'[i])
        \/ /\ state = GAME_OVER /\ state' = RUNNING
           /\ economy.keys >= 1 /\ economy'.keys = economy.keys - 1
           /\ said' = <<"Continuing run">>
        \/ /\ state = GAME_OVER /\ state' = MENU
           /\ menu'.active = "main"]_vars

\* back in the menu after a run that ended in game over
C9_Witness ==
    /\ state = MENU /\ score > 0 /\ obstacle_id > 0
    /\ menu.active = "main"

\* C10: the continue key pressed in GAME_OVER with a key in hand takes exactly
\* one key, sets the state to RUNNING and turns the hoverboard on; with no key
\* it leaves the state, the economy and the player as they were
C10_KeyContinue ==
    [][state = GAME_OVER /\ HandleInput("K", "Trophies") =>
        IF economy.keys >= 1
        THEN /\ economy' = [economy EXCEPT !.keys = @ - 1]
             /\ state' = RUNNING
             /\ player'.hoverboard_active
             /\ player'.hoverboard_timer = continue_hoverboard
        ELSE /\ state' = GAME_OVER
             /\ economy' = economy
             /\ player' = player]_vars

\* the last key was spent on a continue and the run goes on with a hoverboard
C10_Witness ==
    /\ said = <<"Continuing run">>
    /\ state = RUNNING /\ economy.keys = 0
    /\ player.hoverboard_active
(***************************************************************************)
(* The ledger and the coins                                                *)
(***************************************************************************)
Loops == {"jetpack", "magnet"}

\* the tags of the loops that sound
LiveTags == DOMAIN looping_instances

\* C5: once the RUNNING frames since the last pickup of a ledger kind add up
\* to its duration d or more, the kind is absent from the ledger and its
\* teardown has run exactly once, so its loop, if it has one, is stopped
C5_LedgerExpiry ==
    \A k \in LedgerKinds :
        effects[k].picked /\ effects[k].age >= effects[k].d =>
            /\ k \notin DOMAIN active_powerups
            /\ effects[k].downs = 1
            /\ k \in Loops => k \notin LiveTags

Collected(p) ==
    /\ p.coins1 = p.coins0 + 1
    /\ p.total1 = p.total0 + 1

\* C7: a coin that arrives is collected, coins and total_coins each one up,
\* exactly when its lane is the player's lane or magnet is in the ledger as
\* the update leaves it; otherwise both counts are as they were
C7_CoinCollection ==
    \A i \in 1..Len(picks) :
        LET p == picks[i]
            near == p.lane = player.lane \/ "magnet" \in DOMAIN active_powerups
        IN  /\ near => Collected(p)
            /\ ~near => p.coins1 = p.coins0 /\ p.total1 = p.total0

\* a coin in another lane arrived in the frame whose sweep removed the magnet,
\* and was not collected
C7_Witness ==
    \E i \in 1..Len(picks) :
        /\ "magnet" \in picks[i].lapsed
        /\ picks[i].lane # picks[i].plane
        /\ ~Collected(picks[i])
        /\ state = RUNNING
(***************************************************************************)
(* Entities from frame to frame                                            *)
(***************************************************************************)
\* what tells two entities of a collection apart, the distance left out
Identity(e) == [f \in DOMAIN e \ {"distance", "honk_played", "active"} |-> e[f]]

\* after is before without its first gone entities, each of the rest no
\* farther than it was, followed by at most one entity spawned at max_distance
Advanced(before, after) ==
    \E gone \in 0..Len(before), new \in 0..1 :
        /\ Len(after) = Len(before) - gone + new
        /\ \A i \in 1..(Len(before) - gone) :
                /\ Identity(after[i]) = Identity(before[gone + i])
                /\ after[i].distance <= before[gone + i].distance
        /\ new = 1 => after[Len(after)].distance = max_distance

AllActive(seq) == \A i \in 1..Len(seq) : seq[i].active /\ seq[i].distance > 0

Tags(obs) == {obs[i].sound_tag : i \in 1..Len(obs)}

\* C8: from one state to the next every entity that stays in its collection is
\* active and no farther than before; an entity that left, inactive, does not
\* come back: the only newcomer is the one just spawned, and an obstacle's tag
\* that left the collection is never in it again
C8_DistanceAndActive ==
    [][/\ Advanced(obstacles, obstacles') /\ AllActive(obstacles')
       /\ Advanced(powerups, powerups') /\ AllActive(powerups')
       /\ Advanced(letters, letters') /\ AllActive(letters')
       /\ Advanced(coins, coins') /\ AllActive(coins')
       /\ Tags(obstacles') \subseteq
              Tags(obstacles) \cup {"obstacle_" \o ToString(obstacle_id + 1)}
       /\ obstacle_id' >= obstacle_id]_vars

\* a coin has arrived and left the collection while an obstacle behind it came
\* closer, and a letter has just been spawned
C8_Witness ==
    /\ Len(picks) = 1 /\ coins = <<>>
    /\ Len(obstacles) = 1 /\ obstacles[1].distance < max_distance
    /\ Len(letters) = 1 /\ letters[1].distance = max_distance
    /\ state = RUNNING

(***************************************************************************)
(* The start of a run and the ledger against the flags it drives           *)
(***************************************************************************)
\* C11: the step from MENU to RUNNING leaves a fresh player (lane 1, no jump,
\* no roll, no jetpack, no super sneakers, no hoverboard), score 0, multiplier
\* 1, an empty ledger and empty obstacle, power-up, letter and coin
\* collections
C11_StartRunResets ==
    [][state = MENU /\ state' = RUNNING =>
        /\ player' = NewPlayer
        /\ score' = 0 /\ multiplier' = 1
        /\ DOMAIN active_powerups' = {}
        /\ obstacles' = <<>> /\ powerups' = <<>>
        /\ letters' = <<>> /\ coins' = <<>>]_vars

\* a run has just started after one that ended with a timed effect still in
\* the ledger and an obstacle still on the track, its loop still sounding
C11_Witness ==
    /\ said = <<"Run started">> /\ state = RUNNING
    /\ \E k \in LedgerKinds :
            effects[k].picked /\ effects[k].age < effects[k].d /\ effects[k].downs = 0
    /\ "obstacle_2" \in LiveTags
    /\ obstacles = <<>> /\ DOMAIN active_powerups = {}

\* C19: between handlers, the jetpack flag is set exactly when jetpack is in the
\* ledger, the super sneakers flag exactly when super_sneakers is, and the
\* multiplier is 2 when multiplier is in the ledger and 1 otherwise
C19_LedgerFlags ==
    /\ player.jetpack <=> "jetpack" \in DOMAIN active_powerups
    /\ player.super_sneakers <=> "super_sneakers" \in DOMAIN active_powerups
    /\ multiplier = (IF "multiplier" \in DOMAIN active_powerups THEN 2 ELSE 1)

\* a run continued with a key while the multiplier picked up before the
\* collision is still in the ledger
C19_Witness ==
    /\ said = <<"Continuing run">> /\ state = RUNNING
    /\ multiplier = 2 /\ "multiplier" \in DOMAIN active_powerups
    /\ effects["multiplier"].age > 0

(***************************************************************************)
(* The update outside RUNNING                                              *)
(***************************************************************************)
Spawned(seq) == \E i \in 1..Len(seq) : seq[i].distance = max_distance

\* C12: an update called in MENU or GAME_OVER changes no entity, player timer,
\* ledger entry, score, balance or achievement and spawns nothing; and in the
\* update whose collision takes the state from RUNNING to GAME_OVER there is
\* no score increment, coin collection, pickup, spawn or achievement unlock
C12_RunningOnly ==
    [][/\ state # RUNNING /\ (\E dt \in TrackFrames, sp \in PlansTrack : Update(dt, sp)) =>
            UNCHANGED <<player, score, multiplier, stats, obstacles, powerups, letters,
                        coins, obstacle_id, active_powerups, economy, collected,
                        tokens, unlocked, looping_instances, channels>>
       /\ state = RUNNING /\ state' = GAME_OVER =>
            /\ score' = score
            /\ economy' = economy /\ stats'.total_coins = stats.total_coins
            /\ collected' = collected /\ tokens' = tokens
            /\ DOMAIN active_powerups' \subseteq DOMAIN active_powerups
            /\ obstacle_id' = obstacle_id
            /\ ~Spawned(powerups') /\ ~Spawned(letters') /\ ~Spawned(coins')
            /\ unlocked' = unlocked]_vars

(***************************************************************************)
(* The shop                                                                *)
(***************************************************************************)
\* the cursor of the shop menu is on the item with this action
OnShopItem(action) ==
    /\ state = MENU /\ menu.active = "shop"
    /\ MenuActions("shop")[menu.index + 1] = action

Select == \E reward \in Rewards : HandleInput("RETURN", reward)

\* C13: selecting the upgrade of a kind with fewer coins than its cost changes
\* nothing in the economy and is answered "Not enough coins"; with enough
\* coins it takes exactly the cost, adds the increment of 5 s to the duration
\* of that kind and leaves the other durations, the keys and the boxes alone
C13_BuyUpgrade ==
    [][\A kind \in PowerUpKinds :
            OnShopItem("upgrade_" \o kind) /\ Select =>
                IF economy.coins < upgrade_costs[kind]
                THEN economy' = economy /\ said' = <<"Not enough coins">>
                ELSE /\ economy'.coins = economy.coins - upgrade_costs[kind]
                     /\ economy'.powerup_durations[kind] =
                            economy.powerup_durations[kind] + 50
                     /\ \A k \in PowerUpKinds \ {kind} :
                            economy'.powerup_durations[k] = economy.powerup_durations[k]
                     /\ economy'.keys = economy.keys
                     /\ economy'.mystery_boxes = economy.mystery_boxes
                     /\ said' = <<"Upgrade purchased">>]_vars

\* the super sneakers were upgraded out of the 500 coins of a word hunt
C13_Witness ==
    /\ said = <<"Upgrade purchased">>
    /\ economy.coins = word_hunt_reward - upgrade_costs["super_sneakers"]
    /\ economy.powerup_durations["super_sneakers"] = 150
    /\ economy.powerup_durations["jetpack"] = 100

\* C14: coins, keys and mystery boxes are never negative
C14_NoNegativeBalance ==
    /\ economy.coins >= 0
    /\ economy.keys >= 0
    /\ economy.mystery_boxes >= 0

\* an upgrade has taken the last coin and the next purchase was refused, with
\* no key and no box in hand
C14_Witness ==
    /\ economy.coins = 0 /\ economy.keys = 0 /\ economy.mystery_boxes = 0
    /\ said = <<"Not enough coins">>
    /\ Upgrades(economy) = 1

\* C15: buying a mystery box with fewer coins than its cost changes nothing in
\* the economy, and with enough coins takes exactly the cost and adds one box;
\* opening with no box changes nothing, and with a box takes exactly one box
\* and pays the reward drawn, 500 coins or one key or nothing
C15_MysteryBox ==
    [][/\ OnShopItem("buy_mystery_box") /\ Select =>
            IF economy.coins < mystery_box_cost
            THEN economy' = economy
            ELSE economy' = [economy EXCEPT !.coins = @ - mystery_box_cost,
                                            !.mystery_boxes = @ + 1]
       /\ OnShopItem("open_mystery_box") /\ Select =>
            IF economy.mystery_boxes = 0
            THEN economy' = economy
            ELSE \/ economy' = [economy EXCEPT !.mystery_boxes = @ - 1]
                 \/ economy' = [economy EXCEPT !.mystery_boxes = @ - 1, !.keys = @ + 1]
                 \/ economy' = [economy EXCEPT !.mystery_boxes = @ - 1,
                                               !.coins = @ + 500]]_vars

\* a box bought out of the coins of a word hunt was opened and paid 500 coins
C15_Witness ==
    /\ said = <<"Coins">>
    /\ economy.mystery_boxes = 0
    /\ economy.coins > mystery_coins

\* the achievements whose threshold the statistics st meet and that are not in unl
Pending(unl, st) ==
    {n \in {"High Jumper", "Gold Digger", "Marathon"} :
        /\ n \notin unl
        /\ \/ n = "High Jumper" /\ st.jumps >= jumps_threshold
           \/ n = "Gold Digger" /\ st.total_coins >= coins_threshold
           \/ n = "Marathon" /\ st.score >= score_threshold}

\* the first of High Jumper, Gold Digger, Marathon that is in p
Foremost(p) ==
    IF "High Jumper" \in p THEN "High Jumper"
    ELSE IF "Gold Digger" \in p THEN "Gold Digger"
    ELSE "Marathon"

\* C16: one update of a running game unlocks at most one achievement: of those
\* locked with their threshold met at the check, the first in the order High
\* Jumper, Gold Digger, Marathon, and it alone is announced; the others wait
\* for the following updates
C16_AchievementPriority ==
    [][state = RUNNING /\ (\E dt \in WholeFrames, sp \in PlansAchieve : Update(dt, sp)) =>
            LET p == Pending(unlocked, stats')
                told == {i \in DOMAIN said' :
                            \E n \in {"High Jumper", "Gold Digger", "Marathon"} :
                                said'[i] = "Achievement unlocked: " \o n}
            IN  IF p = {}
                THEN unlocked' = unlocked /\ told = {}
                ELSE /\ unlocked' = unlocked \cup {Foremost(p)}
                     /\ Cardinality(told) = 1
                     /\ \A i \in told :
                            said'[i] = "Achievement unlocked: " \o Foremost(p)]_vars

\* the three thresholds were met at one check and High Jumper alone unlocked
C16_Witness ==
    /\ unlocked = {"High Jumper"}
    /\ Pending(unlocked, stats) = {"Gold Digger", "Marathon"}
    /\ \E i \in DOMAIN said : said[i] = "Achievement unlocked: High Jumper"

\* C17: an unlocked achievement stays unlocked and is never announced again,
\* whatever the statistics do afterwards, a new run that resets the jumps
\* and the score included; an achievement is announced only in the step that
\* unlocks it
C17_UnlockOnce ==
    [][\A n \in {"High Jumper", "Gold Digger", "Marathon"} :
            /\ n \in unlocked => n \in unlocked'
            /\ (\E i \in DOMAIN said' : said'[i] = "Achievement unlocked: " \o n)
                    => n \notin unlocked /\ n \in unlocked']_vars

\* in the second run the jumps reached the threshold again and an update
\* checked them without a word
C17_Witness ==
    /\ state = RUNNING /\ score < NearScore /\ elapsed > 0
    /\ stats.jumps >= jumps_threshold /\ ~player.jumping
    /\ "High Jumper" \in unlocked
    /\ said = <<>>

\* C18: for the jump, the roll and the hoverboard the active flag is true
\* exactly when the remaining time is above zero, and the remaining time is
\* never negative, also after a hit has consumed the hoverboard
C18_TimerInvariant ==
    /\ player.jumping <=> player.jump_timer > 0
    /\ player.rolling <=> player.roll_timer > 0
    /\ player.hoverboard_active <=> player.hoverboard_timer > 0
    /\ player.jump_timer >= 0
    /\ player.roll_timer >= 0
    /\ player.hoverboard_timer >= 0

\* the channels that play a loop
Looping(chs) == {chs[i].channel : i \in {j \in DOMAIN chs : chs[j].loops = -1}}

\* C20: every live tag has one looping channel of its own and no other
\* channel loops; start_loop on a live tag changes neither the instances nor
\* the channels; stop_loop on a tag that is not live changes neither;
\* update_loop and update_loop_with_pan on a tag that is not live create no
\* instance; and a second stop_loop after a stop_loop changes nothing more
C20_LoopTags ==
    [][\A tag \in MixerTags :
        /\ \A t \in LiveTags : looping_instances[t].channel \in Looping(channels)
        /\ Cardinality(Looping(channels)) = Cardinality(LiveTags)
        /\ tag \in LiveTags
                /\ (\E name \in MixerNames, lane \in MixerLanes,
                       distance \in MixerDistances : StartLoop(tag, name, lane, distance))
              => UNCHANGED <<looping_instances, channels>>
        /\ tag \notin LiveTags /\ StopLoop(tag)
              => UNCHANGED <<looping_instances, channels>>
        /\ tag \notin LiveTags
                /\ \/ \E lane \in MixerLanes, distance \in MixerDistances :
                            UpdateLoop(tag, lane, distance)
                   \/ \E pan \in MixerPans, distance \in MixerDistances :
                            UpdateLoopWithPan(tag, pan, distance)
              => UNCHANGED <<looping_instances, channels>>
        /\ LET once == stop_loop(Cur, tag)
               twice == stop_loop(once, tag)
           IN  /\ twice.looping_instances = once.looping_instances
               /\ twice.channels = once.channels
               /\ StopLoop(tag) => /\ looping_instances' = once.looping_instances
                                   /\ channels' = once.channels
                                   /\ tag \notin DOMAIN looping_instances']_vars

\* with both tags live on a channel each, start_loop was called on one of them
C20_Witness ==
    /\ mixer_call.method = "start_loop" /\ mixer_call.tag = "jetpack" /\ mixer_call.live
    /\ LiveTags = MixerTags
    /\ Len(channels) = 2

(***************************************************************************)
(* Loops across runs, the submenus, the upgrades                           *)
(***************************************************************************)
\* C22: every live loop that is not the jetpack's or the magnet's is the loop
\* of an active obstacle that is in the obstacle collection, whatever came
\* before: arrivals, game over, the return to the menu, the start of a new run
C22_ObstacleLoops ==
    \A t \in LiveTags \ Loops :
        \E i \in DOMAIN obstacles : obstacles[i].sound_tag = t /\ obstacles[i].active

\* C23: the jetpack and magnet loops are live only while the ledger holds
\* their kind, so every removal of the entry, by expiry or by the start of a
\* new run, has stopped the loop
C23_EffectLoops ==
    \A k \in Loops : k \in LiveTags => k \in DOMAIN active_powerups

\* C24: in the menu state with the shop or the achievements submenu active,
\* Escape invokes the close callback exactly once, so the main menu is opened
\* once and is the active menu afterwards; Escape with no close callback
\* invokes nothing
C24_EscapeClosesSubmenu ==
    [][state = MENU /\ (\E reward \in Rewards : HandleInput("ESCAPE", reward)) =>
            IF menu.active \in {"shop", "achievements"}
            THEN menu.on_close /\ menu'.active = "main" /\ said' = <<"Start Run">>
            ELSE ~menu.on_close /\ said' = <<>>]_vars

(***************************************************************************)
(* Arrival effects                                                         *)
(***************************************************************************)
\* the entities of seq that a frame of dt brings to distance <= 0
Arriving(seq, dt) == {i \in DOMAIN seq : seq[i].distance - base_speed * dt <= 0}

\* those of them that are in lane
ArrivingIn(seq, dt, lane) == {i \in Arriving(seq, dt) : seq[i].lane = lane}

\* C30: the arrival effect of an entity fires only in the update that brings
\* its distance to 0 or below, and only if its lane is the player's lane then
\* (a coin also while magnet is in the ledger): the collisions, letter
\* pickups, season tokens and coins of an update are exactly those of the
\* entities arriving in lane; the entities that arrived have left their
\* collection, so none fires twice, and every entity that stays is active
\* with distance > 0
C30_ArrivalOnce ==
    [][\A dt \in ArriveFrames :
        state = RUNNING /\ (\E sp \in PlansArrive : Update(dt, sp)) =>
            LET lane == player.lane
                crashes == {i \in DOMAIN hits' : hits'[i].cues # <<>>}
                words == {i \in DOMAIN spelled' : spelled'[i].coins1 # spelled'[i].coins0}
                magnet == "magnet" \in DOMAIN active_powerups'
                paying == IF magnet THEN Arriving(coins, dt)
                          ELSE ArrivingIn(coins, dt, lane)
            IN  /\ Len(hits') = Cardinality(Arriving(obstacles, dt))
                /\ Cardinality(crashes) = Cardinality(ArrivingIn(obstacles, dt, lane))
                /\ Len(spelled') = Cardinality(ArrivingIn(letters, dt, lane))
                /\ tokens' = tokens + Cardinality(ArrivingIn(powerups, dt, lane))
                /\ Len(picks') = Cardinality(Arriving(coins, dt))
                /\ economy'.coins = economy.coins + Cardinality(paying)
                                        + word_hunt_reward * Cardinality(words)
                /\ \E new \in 0..1 :
                        Len(obstacles') = Len(obstacles)
                                            - Cardinality(Arriving(obstacles, dt)) + new
                /\ \E new \in 0..1 :
                        Len(powerups') = Len(powerups)
                                            - Cardinality(Arriving(powerups, dt)) + new
                /\ \E new \in 0..1 :
                        Len(letters') = Len(letters)
                                            - Cardinality(Arriving(letters, dt)) + new
                /\ \E new \in 0..1 :
                        Len(coins') = Len(coins) - Cardinality(Arriving(coins, dt)) + new
                /\ AllActive(obstacles') /\ AllActive(powerups')
                /\ AllActive(letters') /\ AllActive(coins')]_vars

\* one frame brought in a letter in the player's lane, which was picked up,
\* and a coin in another lane, which was not
C30_Witness ==
    /\ state = RUNNING
    /\ Len(spelled) = 1 /\ player.lane = 1
    /\ Len(picks) = 1 /\ picks[1].lane # picks[1].plane /\ ~Collected(picks[1])
    /\ letters = <<>> /\ coins = <<>>

(***************************************************************************)
(* The channel pool                                                        *)
(***************************************************************************)
\* C21: with every channel of the pool busy, play_sound and start_loop do
\* nothing: no channel is interrupted or reassigned and no tag is registered;
\* and no two live tags ever refer to the same channel
C21_ExhaustionDrops ==
    [][/\ Busy(channels) = 0 .. mixer_channels - 1 =>
            /\ (\E name \in PoolSounds : PlaySound(name, 1, 0))
                    => UNCHANGED <<channels, looping_instances>>
            /\ (\E tag \in MixerTags, name \in PoolLoops : StartLoop(tag, name, 1, 0))
                    => UNCHANGED <<channels, looping_instances>>
       /\ \A t1, t2 \in DOMAIN looping_instances' :
            t1 # t2 => looping_instances'[t1].channel # looping_instances'[t2].channel]_vars

(***************************************************************************)
(* Volumes                                                                 *)
(***************************************************************************)
\* the channel whose volume the last call of the sound manager has set
Tuned ==
    CASE mixer_call.method = "play_sound" -> {channels[Len(channels)]}
      [] \/ mixer_call.method = "start_loop" /\ ~mixer_call.live
         \/ mixer_call.method \in {"update_loop", "update_loop_with_pan"}
                /\ mixer_call.live ->
            {channels[i] : i \in {j \in DOMAIN channels :
                channels[j].channel = looping_instances[mixer_call.tag].channel}}
      [] OTHER -> {}

\* C27: the left gain is 1 for a pan at or below 0 and falls to 0 at pan 1, the
\* right gain is 1 for a pan at or above 0 and falls to 0 at pan -1, a pan
\* outside [-1, 1] counting as the nearer end; the distance volume is 1 at
\* distance 0 and below, 0 at max_distance and above, and linear between; the
\* two channel volumes are the gains times the distance volume times
\* sfx_volume.  So pan -0.8 at distance 0 gives 1.0 and 0.2 times sfx_volume,
\* and max_distance gives 0 on both sides for every pan
C27_StereoGains ==
    \A e \in Tuned :
        LET pan == mixer_call.pan
            d == mixer_call.distance
            left == IF pan <= 0 THEN 10000 ELSE IF pan >= 10000 THEN 0 ELSE 10000 - pan
            right == IF pan >= 0 THEN 10000 ELSE IF pan <= -10000 THEN 0 ELSE 10000 + pan
            vol == IF d <= 0 THEN 1000
                   ELSE IF d >= max_distance THEN 0
                   ELSE 1000 - (1000 * d) \div max_distance
        IN  /\ e.left = left * vol * default_sfx_volume
            /\ e.right = right * vol * default_sfx_volume
            /\ pan = -8000 /\ d = 0 =>
                    /\ e.left = 10000 * 1000 * default_sfx_volume
                    /\ e.right = 2000 * 1000 * default_sfx_volume
            /\ d >= max_distance => e.left = 0 /\ e.right = 0

\* the loop in lane 0 was taken to a distance below 0: full volume on the
\* left, a fifth of it on the right
C27_Witness ==
    /\ mixer_call.method = "update_loop" /\ mixer_call.live
    /\ mixer_call.pan = -8000 /\ mixer_call.distance < 0
    /\ \E e \in Tuned : e.left = 90000000 /\ e.right = 18000000

(***************************************************************************)
(* The music                                                               *)
(***************************************************************************)
\* C26: no audio or speech operation aborts the run: whatever the backend
\* does, every handler returns normally, so no exception ever leaves a
\* handler and ends the frame loop
C26_NoAbort == ~raised

\* C28: the music volume stays in [0, 1]; in every game state Page Up raises
\* it by 0.05 and Page Down lowers it by 0.05, up to the ends of the range, and
\* the two keys change nothing else of the game
C28_MusicVolume ==
    [][/\ music_volume' >= 0 /\ music_volume' <= 100
       /\ (\E reward \in Rewards : HandleInput("PAGEUP", reward)) =>
                music_volume' = (IF music_volume + 5 > 100 THEN 100 ELSE music_volume + 5)
       /\ (\E reward \in Rewards : HandleInput("PAGEDOWN", reward)) =>
                music_volume' = (IF music_volume - 5 < 0 THEN 0 ELSE music_volume - 5)
       /\ (\E key \in {"PAGEUP", "PAGEDOWN"}, reward \in Rewards : HandleInput(key, reward))
            => UNCHANGED <<running, state, player, score, multiplier, stats, obstacles,
                           powerups, letters, coins, obstacle_id, active_powerups,
                           economy, collected, tokens, unlocked, menu,
                           looping_instances, channels, music, audio_ready>>]_vars

\* after game over, with the volume at 1, a volume key was pressed
C28_Witness ==
    /\ state = GAME_OVER
    /\ music_volume = 100
    /\ said = <<"Music volume">>

(***************************************************************************)
(* Upgraded durations                                                      *)
(***************************************************************************)
\* C25: the duration table starts at the base values and changes only when
\* an upgrade is bought, by 5 s for that kind, so after k upgrades of a kind
\* it holds base + 5k: the start of a run does not touch it.  Every pickup of
\* a kind sets the remaining time, in the ledger or in the hoverboard timer,
\* to the value the table holds for the kind then
C25_UpgradedDurations ==
    [][/\ \A kind \in PowerUpKinds :
            /\ economy'.powerup_durations[kind] >= powerup_base_duration[kind]
            /\ economy'.powerup_durations[kind] =
                    economy.powerup_durations[kind]
                    + (IF /\ OnShopItem("upgrade_" \o kind)
                          /\ HandleInput("RETURN", "Trophies")
                          /\ economy.coins >= upgrade_costs[kind]
                       THEN upgrade_increment ELSE 0)
       /\ \A dt \in WholeFrames :
            state = RUNNING /\ (\E sp \in PlansUpgrade : Update(dt, sp)) =>
                \A i \in ArrivingIn(powerups, dt, player.lane) :
                    LET kind == powerups[i].kind
                    IN  /\ kind = "hoverboard" =>
                                /\ player'.hoverboard_active
                                /\ player'.hoverboard_timer =
                                        economy.powerup_durations[kind]
                        /\ kind \in LedgerKinds =>
                                /\ kind \in DOMAIN active_powerups'
                                /\ active_powerups'[kind] =
                                        economy.powerup_durations[kind]]_vars

\* in a third run, after two word hunts, a hoverboard upgraded once was picked
\* up: 35 s remain
C25_Witness ==
    /\ state = RUNNING
    /\ economy.powerup_durations["hoverboard"] =
            powerup_base_duration["hoverboard"] + upgrade_increment
    /\ player.hoverboard_active
    /\ player.hoverboard_timer =
            powerup_base_duration["hoverboard"] + upgrade_increment

(***************************************************************************)
(* The scenario of one barrier                                             *)
(***************************************************************************)
\* a run with one low barrier in lane 1 at max_distance, the player in lane 1
\* on the ground with neither jetpack nor hoverboard
BarrierAhead ==
    /\ state = RUNNING
    /\ Len(obstacles) = 1
    /\ obstacles[1].lane = 1 /\ obstacles[1].height = "low"
    /\ obstacles[1].distance = max_distance
    /\ player.lane = 1 /\ ~player.jumping
    /\ ~player.jetpack /\ ~player.hoverboard_active

\* the update that brought the barrier in ended the run with the crash cue
Crashed ==
    /\ state = GAME_OVER
    /\ Len(hits) >= 1
    /\ hits[1].lane = 1 /\ hits[1].distance <= 0
    /\ hits[1].state0 = RUNNING /\ hits[1].state1 = GAME_OVER
    /\ hits[1].cues = <<Cue("crash", 1, 0)>>

\* C29: from a run with one low barrier in lane 1 at max_distance and the
\* player standing in lane 1, frames that take time eventually bring the
\* barrier to distance 0 or below, and then the state is GAME_OVER and the
\* crash cue has been fired at lane 1, distance 0
C29_BarrierScenario == BarrierAhead ~> Crashed

\* the barrier came in and the run is over
C29_Witness == Crashed /\ obstacles = <<>> /\ Len(hits) = 1 /\ said = <<"Game Over">>

(***************************************************************************)
(* The menu state, the order within a frame, what a new run and a          *)
(* continue leave alone                                                    *)
(***************************************************************************)
\* C31: whenever the state is MENU a menu is active, whatever keys came
\* before, Escape on the main menu or on a submenu included
C31_MenuActive == state = MENU => menu.active # "None"

\* what is left of each protection once the frame time dt is taken off the
\* player's timers and off the ledger
JumpLeft(dt) == player.jumping /\ player.jump_timer - dt > 0

RollLeft(dt) == player.rolling /\ player.roll_timer - dt > 0

HoverLeft(dt) == player.hoverboard_active /\ player.hoverboard_timer - dt > 0

JetLeft(dt) ==
    /\ player.jetpack
    /\ "jetpack" \in DOMAIN active_powerups => active_powerups["jetpack"] - dt > 0

\* C32: in an update of a running game the player's timers and the ledger
\* sweep come before the arrivals: the obstacle that arrives in the player's
\* lane meets the jump, the roll, the hoverboard and the jetpack that outlast
\* the frame and no other, so one that runs out in the frame protects no
\* more, and a jump just made, which lasts longer than the frame, does
C32_FrameOrder ==
    [][\A dt \in OrderFrames, sp \in PlansOrder :
          /\ state = RUNNING /\ hits' # <<>> /\ hits'[1].lane = player.lane
          /\ elapsed' = elapsed + dt /\ Update(dt, sp)
          =>
            LET h == hits'[1]
                sheltered == \/ h.height = "low" /\ JumpLeft(dt)
                             \/ h.height = "high" /\ RollLeft(dt)
            IN  /\ h.jumping = JumpLeft(dt) /\ h.rolling = RollLeft(dt)
                /\ h.jetpack = JetLeft(dt) /\ h.hover0 = HoverLeft(dt)
                /\ sheltered \/ JetLeft(dt) => h.state1 = RUNNING /\ h.cues = <<>>
                /\ ~sheltered /\ ~JetLeft(dt) /\ HoverLeft(dt) =>
                        h.state1 = RUNNING /\ ~h.hover1
                /\ ~sheltered /\ ~JetLeft(dt) /\ ~HoverLeft(dt) => h.state1 = GAME_OVER]_vars

\* the obstacle spawned in the opening frame came in with the long frame that
\* followed, the run being 8 s old; the jump timer of -3.3 s tells that the
\* jump was made just before that frame, and it did not save the player from
\* the low obstacle
C32_Witness ==
    /\ state = GAME_OVER /\ elapsed = 80
    /\ Len(hits) = 1 /\ hits[1].height = "low" /\ hits[1].distance = 0
    /\ ~hits[1].jumping /\ hits[1].state1 = GAME_OVER
    /\ player.jump_timer = jump_duration - 40

\* C33: the start of a new run leaves the session's data as it was: the
\* coins, keys, mystery boxes and the table of durations, the unlocked
\* achievements, the season tokens, the coins collected in all and the
\* letters of the word hunt in progress; and no step ever takes a season
\* token away
C33_SessionData ==
    [][/\ tokens' >= tokens
       /\ state = MENU /\ state' = RUNNING =>
            /\ economy' = economy
            /\ unlocked' = unlocked
            /\ tokens' = tokens
            /\ stats'.total_coins = stats.total_coins
            /\ collected' = collected]_vars

\* a second run has just started: the first run completed a word hunt and
\* collected one more letter and a season token, and a mystery box was bought
\* with the reward
C33_Witness ==
    /\ state = RUNNING /\ said = <<"Run started">>
    /\ economy.coins = word_hunt_reward - mystery_box_cost
    /\ economy.mystery_boxes = 1
    /\ tokens = 1
    /\ collected = <<"H">>

\* C34: the continue key in GAME_OVER changes the keys, the state and the
\* hoverboard fields and nothing else of the run: the score, the multiplier,
\* the ledger, the rest of the player and of the economy, and the four
\* collections with the entities that were in flight at game over stay as
\* they were
C34_ContinueFrame ==
    [][state = GAME_OVER /\ (\E reward \in Rewards : HandleInput("K", reward)) =>
        /\ score' = score /\ multiplier' = multiplier
        /\ active_powerups' = active_powerups
        /\ player' = [player EXCEPT !.hoverboard_active = player'.hoverboard_active,
                                    !.hoverboard_timer = player'.hoverboard_timer]
        /\ economy' = [economy EXCEPT !.keys = economy'.keys]
        /\ obstacles' = obstacles /\ powerups' = powerups
        /\ letters' = letters /\ coins' = coins
        /\ stats' = stats /\ collected' = collected /\ tokens' = tokens]_vars

\* the run goes on after a continue, with the multiplier still in the ledger
\* and the letter that was in flight at game over still on the track
C34_Witness ==
    /\ state = RUNNING /\ said = <<"Continuing run">>
    /\ "multiplier" \in DOMAIN active_powerups /\ multiplier = 2
    /\ letters # <<>>
    /\ score > 0

(***************************************************************************)
(* A timed effect picked up again                                          *)
(***************************************************************************)
\* C35: a kind in the ledger has one entry, whose remaining time is the
\* table's duration less the time run since the kind was last picked up, so
\* a pickup of an active kind puts the remaining time back to the table's
\* duration and adds nothing; no teardown has run for an entry that is in the
\* ledger, and exactly one has run once the time of the last pickup is out
C35_RefreshedPickup ==
    \A k \in LedgerKinds :
        /\ k \in DOMAIN active_powerups =>
              /\ effects[k].picked /\ effects[k].downs = 0
              /\ effects[k].d = DurationOf(economy, k)
              /\ active_powerups[k] = effects[k].d - effects[k].age
              /\ active_powerups[k] > 0
        /\ effects[k].picked /\ k \notin DOMAIN active_powerups =>
              /\ effects[k].age = effects[k].d
              /\ effects[k].downs = 1

\* 12 s into the run the multiplier has just been picked up, less than 10 s
\* after the power-up of the opening frame was: the entry is back at 10 s
C35_Witness ==
    /\ state = RUNNING /\ elapsed = 120
    /\ "multiplier" \in DOMAIN active_powerups
    /\ effects["multiplier"].age = 0
    /\ active_powerups["multiplier"] = powerup_base_duration["multiplier"]
    /\ multiplier = 2

(***************************************************************************)
(* Keys and states                                                         *)
(***************************************************************************)
\* the four collections of entities on the track
Entities == <<obstacles, powerups, letters, coins>>

\* the fields of Game and of the objects it owns, the sound manager apart
GameFields ==
    <<state, player, score, multiplier, stats, Entities, obstacle_id, active_powerups,
      economy, collected, tokens, unlocked, menu>>

\* Return on the first item of the main menu, Start Run
StartsRun(key) == key = "RETURN" /\ menu.active = "main" /\ menu.index = 0

\* C36 as claimed: the movement keys change the player and the jump count
\* only while RUNNING; in GAME_OVER no key but the continue key and Escape
\* changes the game; in MENU no key changes the player, the entities, the
\* ledger or the score
C36_InputGated ==
    [][\A key \in KeysGate :
          HandleInput(key, "Trophies") =>
            /\ state # RUNNING /\ key \in {"LEFT", "RIGHT", "UP", "DOWN"} =>
                    player' = player /\ stats'.jumps = stats.jumps
            /\ state = GAME_OVER /\ key \notin {"K", "ESCAPE"} => GameFields' = GameFields
            /\ state = MENU =>
                    /\ player' = player /\ Entities' = Entities
                    /\ active_powerups' = active_powerups /\ score' = score]_vars

\* C36 as amended: the same, except that in MENU Return on Start Run starts
\* a run, which is the one key event of the menu that changes the player, the
\* entities, the ledger or the score
C36_InputGatedButStart ==
    [][\A key \in KeysGate :
          HandleInput(key, "Trophies") =>
            /\ state # RUNNING /\ key \in {"LEFT", "RIGHT", "UP", "DOWN"} =>
                    player' = player /\ stats'.jumps = stats.jumps
            /\ state = GAME_OVER /\ key \notin {"K", "ESCAPE"} => GameFields' = GameFields
            /\ state = MENU =>
                    IF StartsRun(key) THEN state' = RUNNING
                    ELSE /\ state' = MENU
                         /\ player' = player /\ Entities' = Entities
                         /\ active_powerups' = active_powerups /\ score' = score]_vars

\* a run has just been started from the menu after a run that had an obstacle
C36_Witness ==
    /\ state = RUNNING /\ said = <<"Run started">>
    /\ obstacle_id >= 1
    /\ player = NewPlayer /\ score = 0

(***************************************************************************)
(* The lane of the player                                                  *)
(***************************************************************************)
\* the lane after a lane-shift key pressed in lane l
Shifted(key, l) ==
    CASE key = "LEFT" -> IF l = 0 THEN 0 ELSE l - 1
      [] key = "RIGHT" -> IF l = 2 THEN 2 ELSE l + 1

\* C37: the lane of the player is always 0, 1 or 2; Left in lane 0 and Right
\* in lane 2 leave it unchanged and every other lane-shift key of a run
\* changes it by exactly one
C37_LaneInRange ==
    /\ [](player.lane \in {0, 1, 2})
    /\ [][\A key \in {"LEFT", "RIGHT"} :
             state = RUNNING /\ HandleInput(key, "Trophies") =>
                /\ player'.lane = Shifted(key, player.lane)
                /\ player' = [player EXCEPT !.lane = player'.lane]]_vars

\* the player went to the right lane before the first frame of the run
C37_Witness ==
    /\ state = RUNNING /\ elapsed = 0 /\ score = 0
    /\ player.lane = 2 /\ ~player.jumping /\ ~player.rolling

(***************************************************************************)
(* The progress of the word hunt                                           *)
(***************************************************************************)
\* C38: with a target that is not empty, after every collect and between
\* them fewer letters are collected than the target has and next_letter is
\* the letter of the target at the position after them; with the empty
\* target next_letter is the empty string and no letter is on the track
C38_HuntProgress ==
    IF hunt_letters # <<>>
    THEN /\ Len(collected) < Len(hunt_letters)
         /\ \A i \in 1..Len(spelled) : Len(spelled[i].after) < Len(hunt_letters)
         /\ next_letter(word_hunt(Cur)) = hunt_letters[Len(collected) + 1]
         /\ \A i \in 1..Len(letters) : \E j \in 1..Len(hunt_letters) : letters[i].letter = hunt_letters[j]
    ELSE /\ next_letter(word_hunt(Cur)) = ""
         /\ letters = <<>> /\ collected = <<>>

\* a word of two letters completed and its first letter collected again
C38_Witness ==
    /\ state = RUNNING
    /\ hunt_letters = <<"H", "U">>
    /\ economy.coins = word_hunt_reward
    /\ spelled # <<>> /\ spelled[1].before = <<>>
    /\ collected = <<"H">>

(***************************************************************************)
(* Entities leave the track                                                *)
(***************************************************************************)
\* the four collections of the track in one sequence
OnTrack == obstacles \o powerups \o letters \o coins

\* the distances of the entities of a collection, in its order
Distances(seq) == [i \in 1..Len(seq) |-> seq[i].distance]

\* the distances left of a collection after an advance by d: those that are
\* still above 0
Ahead(seq, d) == SelectSeq([i \in 1..Len(seq) |-> seq[i].distance - d], LAMBDA x : x > 0)

\* after is before advanced by d, less what has arrived, plus what the frame
\* spawned at max_distance
Swept(before, after, d) ==
    \E spawned \in {<<>>, <<max_distance>>, <<max_distance, max_distance>>} :
        Distances(after) = Ahead(before, d) \o spawned

\* C39: while the state stays RUNNING and frames that take time keep coming,
\* every obstacle, power-up, letter and coin comes to distance 0 or below
\* after finitely many frames and is then no longer in its collection: a
\* frame of a run keeps in each collection exactly the entities that are
\* still ahead, no collection holds an entity at distance 0 or below between
\* two frames, and a track that is not empty becomes empty unless the run ends
C39_EntitiesLeave ==
    /\ [](\A i \in 1..Len(OnTrack) : OnTrack[i].active /\ OnTrack[i].distance > 0)
    /\ [][state = RUNNING /\ elapsed' > elapsed =>
            LET d == base_speed * (elapsed' - elapsed)
            IN  /\ Swept(obstacles, obstacles', d) /\ Swept(powerups, powerups', d)
                /\ Swept(letters, letters', d) /\ Swept(coins, coins', d)]_vars
    /\ OnTrack # <<>> ~> (state # RUNNING \/ OnTrack = <<>>)

\* the run goes on with the track empty after an obstacle, a season token
\* and a letter have come in
C39_Witness ==
    /\ state = RUNNING
    /\ obstacle_id >= 1 /\ stats.score > 0 /\ collected # <<>> /\ tokens >= 1
    /\ obstacles = <<>> /\ powerups = <<>> /\ letters = <<>> /\ coins = <<>>
====
